---- MODULE Spec2Model ----
(***************************************************************************)
(* State-machine model of the CAN signal decoder (can_decoder.py) and of   *)
(* the capture pipeline and decoded-data store of the analyzer GUI         *)
(* (can_gui.py).                                                           *)
(*                                                                         *)
(* Conventions                                                             *)
(*   - a payload (Python bytes) is a sequence of integers 0..255; Python   *)
(*     index i is element i+1 of the sequence;                             *)
(*   - scale, offset and physical values are exact numbers in thousandths  *)
(*     (scale 1.0 is 1000, scale 0.001 is 1), so that                       *)
(*     raw * scale + offset is integer arithmetic;                         *)
(*   - a decoded value is a record [is_none, v]: Python None is NoneVal;   *)
(*   - the outcome of a call that may raise is a record [raised, value].   *)
(***************************************************************************)
EXTENDS Integers, Sequences, FiniteSets, TLC

VARIABLES
    signal_definitions,  \* CANDecoder.signal_definitions: can_id -> Seq(signal)
    custom_decoders,     \* CANDecoder.custom_decoders: can_id -> callable
    first_registered,    \* history: can_id -> what was registered first for it
    last_decode          \* history: the decode_message call made last, if the
                         \* tables have not changed since, and its outcome

VARIABLES
    reader,                 \* CANAnalyzerGUI.reader: "none", "open" (bus set) or
                            \* "failed" (a CANReader whose bus is None)
    is_connected,
    is_capturing,
    stop_processing,
    message_queue,          \* queue.Queue of frames {timestamp, arbitration_id, data}
    decoded_data,           \* <<can_id, signal_name>> -> deque of samples
    max_points_var,         \* the text of the "Max Data Points" entry
    decoder_listbox_items,  \* list of <<can_id, signal_name>>
    clock,                  \* the next value of datetime.now()
    started,                \* number of _start_capture calls that created threads
    read_threads,           \* session -> state of its _read_messages_thread
    processing_threads,     \* session -> state of its _process_messages_thread
    removed,                \* history: the <<can_id, signal_name>> removed so far
    appended,               \* history: series key -> all samples appended to the
                            \* series since it was created
    append_caps,            \* history: series key -> the capacity texts in force
                            \* at the appends to the series
    last_process,           \* history: the last _process_message call
    current_error           \* CANAnalyzerGUI.current_error: the kind of the message
                            \* the error banner shows, "none" for None

VARIABLES
    bus,              \* CANReader.bus: "none" for None, "open" for a can Bus
    messages,         \* CANReader.messages: list of the collected messages
    running,          \* CANReader.running
    read_call,        \* the read_messages call in progress: its arguments, its
                      \* locals and its position
    last_filter       \* history: the filter_messages call made last

VARIABLES
    plot_signals,     \* CANAnalyzerGUI.plot_signals: key text -> subscription
    plot_can_id_var,  \* the text of the plot panel's CAN ID combobox
    plot_signal_var,  \* the text of the plot panel's signal combobox
    plot_signal_values, \* the list the signal combobox offers
    color_index,      \* CANAnalyzerGUI.color_index
    plot_message,     \* the message box the last plot handler showed,
                      \* "none" when it showed none
    last_plot_add     \* history: the texts and the key of the last
                      \* _add_to_plot, and the texts of the _remove_from_plot
                      \* calls made since

decoderVars == <<signal_definitions, custom_decoders, first_registered, last_decode>>

sessionVars == <<reader, is_connected, is_capturing, stop_processing, started>>

threadVars == <<message_queue, clock, read_threads, processing_threads>>

storeVars == <<decoded_data, max_points_var, appended, append_caps, last_process>>

tableVars == <<decoder_listbox_items, removed>>

reportVars == <<current_error>>

plotVars ==
    <<plot_signals, plot_can_id_var, plot_signal_var, plot_signal_values,
      color_index, plot_message, last_plot_add>>

guiVars == <<sessionVars, threadVars, storeVars, tableVars, reportVars, plotVars>>

cliVars == <<bus, messages, running, read_call, last_filter>>

vars == <<decoderVars, guiVars, cliVars>>

(***************************************************************************)
(* Bounds of the model                                                     *)
(***************************************************************************)
\* total number of signal definitions registered in the decoder specification
MaxSignals == 2

\* number of frames the store specification processes
MaxFrames == 5

\* number of frames the bus delivers in the pipeline specification
MaxClock == 2

\* number of capture sessions started in the pipeline specification
MaxStarts == 2

\* number of entries of the decoder listbox in the table specification
MaxTable == 5

\* Messages a CANReader collects at most
MaxMessages == 3

\* _add_to_plot calls that subscribe a signal
MaxPlots == 2

(***************************************************************************)
(* Python values                                                           *)
(***************************************************************************)
NoneVal == [is_none |-> TRUE, v |-> 0]

Val(x) == [is_none |-> FALSE, v |-> x]

Return(x) == [raised |-> FALSE, value |-> x]

Raise == [raised |-> TRUE, value |-> 0]

EmptyDict == [n \in {} |-> NoneVal]

\* d[k] = x on a Python dict
DictSet(d, k, x) == [n \in (DOMAIN d) \cup {k} |-> IF n = k THEN x ELSE d[n]]

\* del d[k]
DictDel(d, k) == [n \in (DOMAIN d) \ {k} |-> d[n]]

\* 1 << n, for 0 <= n <= 16
Pow2(n) ==
    <<1, 2, 4, 8, 16, 32, 64, 128, 256, 512, 1024, 2048, 4096, 8192, 16384,
      32768, 65536>>[n + 1]

\* byte_val & (1 << bit_idx) is non-zero
BitIsSet(byte_val, bit_idx) == (byte_val \div Pow2(bit_idx)) % 2 = 1

\* data[i] raises IndexError unless -len(data) <= i < len(data)
IndexOk(data, i) == (-Len(data)) <= i /\ i < Len(data)

\* data[i], with Python's negative indexing
PyIndex(data, i) == IF i >= 0 THEN data[i + 1] ELSE data[Len(data) + i + 1]

(***************************************************************************)
(* CANDecoder._extract_signal                                              *)
(***************************************************************************)
\* Mutant: the bit after the field is taken as well
InFieldAndNext(signal, global_bit) ==
    /\ global_bit >= signal.start_bit
    /\ global_bit <= signal.start_bit + signal.length

\* Line 82 (and 94): is the bit one of the field
InField(signal, global_bit) ==
    /\ global_bit >= signal.start_bit
    /\ global_bit < signal.start_bit + signal.length

\* The little-endian loops (lines 76-85), from (byte_idx, bit_idx) onwards:
\* bytes start_byte..end_byte ascending, bits 0..7 ascending.
RECURSIVE LittleEndianBits(_, _, _, _, _, _, _)
LittleEndianBits(data, signal, end_byte, byte_idx, bit_idx, bit_pos, value) ==
    IF byte_idx > end_byte THEN Return(value)
    ELSE IF ~IndexOk(data, byte_idx) THEN Raise
    ELSE IF bit_idx > 7
         THEN LittleEndianBits(data, signal, end_byte, byte_idx + 1, 0, bit_pos, value)
    ELSE LET byte_val == PyIndex(data, byte_idx)
             global_bit == byte_idx * 8 + bit_idx
         IN  IF InField(signal, global_bit)
             THEN LittleEndianBits(data, signal, end_byte, byte_idx, bit_idx + 1,
                      bit_pos + 1,
                      IF BitIsSet(byte_val, bit_idx) THEN value + Pow2(bit_pos) ELSE value)
             ELSE LittleEndianBits(data, signal, end_byte, byte_idx, bit_idx + 1,
                      bit_pos, value)

\* The big-endian loops (lines 88-97), from (byte_idx, bit_idx) onwards:
\* bytes end_byte..start_byte descending, bits 7..0 descending, the bit's
\* global index counted from the byte's most significant bit.
RECURSIVE BigEndianBits(_, _, _, _, _, _, _)
BigEndianBits(data, signal, start_byte, byte_idx, bit_idx, bit_pos, value) ==
    IF byte_idx < start_byte THEN Return(value)
    ELSE IF ~IndexOk(data, byte_idx) THEN Raise
    ELSE IF bit_idx < 0
         THEN BigEndianBits(data, signal, start_byte, byte_idx - 1, 7, bit_pos, value)
    ELSE LET byte_val == PyIndex(data, byte_idx)
             global_bit == byte_idx * 8 + (7 - bit_idx)
         IN  IF InField(signal, global_bit)
             THEN BigEndianBits(data, signal, start_byte, byte_idx, bit_idx - 1,
                      bit_pos + 1,
                      IF BitIsSet(byte_val, bit_idx) THEN value + Pow2(bit_pos) ELSE value)
             ELSE BigEndianBits(data, signal, start_byte, byte_idx, bit_idx - 1,
                      bit_pos, value)

\* Mutant: the sign bit alone (the pattern 10...0) is taken as positive
SignedAboveSignBit(signal, value) ==
    IF ~signal.is_signed
    THEN Return(value * signal.scale + signal.offset)
    ELSE IF signal.length - 1 < 0 THEN Raise
    ELSE IF value > Pow2(signal.length - 1)
         THEN Return((value - Pow2(signal.length)) * signal.scale + signal.offset)
         ELSE Return(value * signal.scale + signal.offset)

\* Lines 99-106: the signed conversion (1 << n raises ValueError for n < 0),
\* then scale and offset.
SignedAndScaled(signal, value) ==
    IF ~signal.is_signed
    THEN Return(value * signal.scale + signal.offset)
    ELSE IF signal.length - 1 < 0 THEN Raise
    ELSE IF value >= Pow2(signal.length - 1)
         THEN Return((value - Pow2(signal.length)) * signal.scale + signal.offset)
         ELSE Return(value * signal.scale + signal.offset)

\* Mutant: a payload too short for the field raises
ShortPayloadRaises(signal) == Raise

\* What a payload too short for the field yields (line 71: return 0.0)
ShortPayloadResult(signal) == Return(0)

extract_signal(data, signal) ==
    LET start_byte == signal.start_bit \div 8
        end_bit    == signal.start_bit + signal.length
        end_byte   == (end_bit - 1) \div 8
    IN  IF end_byte >= Len(data) THEN ShortPayloadResult(signal)
        ELSE LET bits == IF signal.is_little_endian
                         THEN LittleEndianBits(data, signal, end_byte, start_byte, 0, 0, 0)
                         ELSE BigEndianBits(data, signal, start_byte, end_byte, 7, 0, 0)
             IN  IF bits.raised THEN Raise ELSE SignedAndScaled(signal, bits.value)

(***************************************************************************)
(* CANDecoder.decode_message                                               *)
(***************************************************************************)
\* The callables a caller may register with add_custom_decoder.  They are
\* opaque to the decoder; the model takes two:
\*   first_byte : lambda data: {"custom_value": data[0]}   (raises on b"")
\*   shadow     : lambda data: {"a": 7.0}   (a key that is also a signal name)
CustomKinds == {"first_byte", "shadow"}

CallCustom(kind, data) ==
    IF kind = "first_byte"
    THEN IF Len(data) = 0 THEN Raise
         ELSE Return(DictSet(EmptyDict, "custom_value", Val(data[1] * 1000)))
    ELSE Return(DictSet(EmptyDict, "a", Val(7000)))

\* try: value = _extract_signal(...) except Exception: None   (lines 54-58)
SignalEntry(data, signal) ==
    LET r == extract_signal(data, signal)
    IN  IF r.raised THEN NoneVal ELSE Val(r.value)

\* Mutant: the loop without the try/except, the first extraction that raises
\* ends it
RECURSIVE DecodeSignalsNoExcept(_, _, _, _)
DecodeSignalsNoExcept(signals, data, k, decoded) ==
    IF k > Len(signals) THEN decoded
    ELSE IF extract_signal(data, signals[k]).raised THEN decoded
    ELSE DecodeSignalsNoExcept(signals, data, k + 1,
             DictSet(decoded, signals[k].name, SignalEntry(data, signals[k])))

\* The loop of lines 53-58 from the k-th definition on
RECURSIVE DecodeSignals(_, _, _, _)
DecodeSignals(signals, data, k, decoded) ==
    IF k > Len(signals) THEN decoded
    ELSE DecodeSignals(signals, data, k + 1,
             DictSet(decoded, signals[k].name, SignalEntry(data, signals[k])))

\* Mutant: the signal definitions are looked up before the custom decoders
SignalsBeforeCustom(custom, can_id) ==
    can_id \in DOMAIN custom /\ can_id \notin DOMAIN signal_definitions

\* Lines 47-49: is the custom decoder of can_id the one that answers
UsesCustomDecoder(custom, can_id) == can_id \in DOMAIN custom

\* Mutant: self.signal_definitions[can_id] without the membership test
DecodeWithKeyError(defs, custom, can_id, data) ==
    IF UsesCustomDecoder(custom, can_id)
    THEN CallCustom(custom[can_id], data)
    ELSE IF can_id \in DOMAIN defs
         THEN Return(DecodeSignals(defs[can_id], data, 1, EmptyDict))
         ELSE Raise

\* decode_message on given tables, lines 43-60
DecodeWith(defs, custom, can_id, data) ==
    IF UsesCustomDecoder(custom, can_id)
    THEN CallCustom(custom[can_id], data)
    ELSE IF can_id \in DOMAIN defs
         THEN Return(DecodeSignals(defs[can_id], data, 1, EmptyDict))
         ELSE Return(EmptyDict)

decode_message(can_id, data) ==
    DecodeWith(signal_definitions, custom_decoders, can_id, data)

\* CANDecoder.get_available_signals
get_available_signals(can_id) ==
    IF can_id \in DOMAIN signal_definitions
    THEN [i \in 1..Len(signal_definitions[can_id]) |-> signal_definitions[can_id][i].name]
    ELSE <<>>

(***************************************************************************)
(* Inputs of the decoder specification                                     *)
(***************************************************************************)
\* CAN_ID_AIN1_4, CAN_ID_AIN5_8 and CAN_ID_AIN21_temp of can_ids.py
CAN_ID_AIN1_4 == 601

CAN_ID_AIN5_8 == 602

CAN_ID_AIN21_temp == 606

DecoderIds == {CAN_ID_AIN1_4, CAN_ID_AIN21_temp}

Signal(name, start_bit, length, scale, offset, is_signed, is_little_endian) ==
    [name |-> name, start_bit |-> start_bit, length |-> length, scale |-> scale,
     offset |-> offset, is_signed |-> is_signed,
     is_little_endian |-> is_little_endian]

\* Signal definitions a caller may register.  SignalDefinition.__init__ stores
\* its arguments unchecked, so a zero length and a negative start bit are
\* among them.
SignalPool ==
    { Signal("a", 0, 16, 100, 0, FALSE, TRUE),       \* bytes 0-1, scale 0.1
      Signal("b", 32, 16, 1000, 5000, FALSE, TRUE),  \* bytes 4-5, offset 5.0
      Signal("z", 0, 0, 1000, 0, TRUE, TRUE),        \* length 0, signed
      Signal("n", -16, 8, 1000, 0, FALSE, TRUE) }    \* negative start bit

Payloads ==
    { <<>>,
      <<43, 1, 255, 128>>,
      <<1, 2, 3, 4, 5, 6>> }

SignalCount ==
    LET RECURSIVE Sum(_)
        Sum(S) == IF S = {} THEN 0
                  ELSE LET x == CHOOSE y \in S : TRUE
                       IN  Len(signal_definitions[x]) + Sum(S \ {x})
    IN  Sum(DOMAIN signal_definitions)

(***************************************************************************)
(* The decoder specification: a CANDecoder and its callers                 *)
(***************************************************************************)
NoDecode ==
    [called |-> FALSE, can_id |-> 0, data |-> <<>>, raised |-> FALSE,
     result |-> EmptyDict]

\* None where a list is expected
NoneList == [is_none |-> TRUE, v |-> <<>>]

\* No read_messages call in progress
NoReadCall ==
    [pc |-> "idle", duration_given |-> FALSE, count |-> NoneVal,
     message_count |-> 0, before |-> 0, can_error |-> FALSE,
     interrupted |-> FALSE, timed_out |-> FALSE]

NoFilter ==
    [called |-> FALSE, can_ids |-> NoneList, min_dlc |-> NoneVal,
     max_dlc |-> NoneVal, data_filter |-> "None", result |-> <<>>,
     before |-> <<>>]

\* No signal subscribed to the plot yet
NoPlotAdd ==
    [called |-> FALSE, can_id_str |-> <<>>, signal_name |-> "", key |-> <<>>,
     remove_called |-> FALSE, remove_can_id_str |-> <<>>, remove_signal_name |-> ""]

NoProcess ==
    [called |-> FALSE, can_id |-> 0, timestamp |-> 0, text |-> <<>>,
     raised |-> FALSE, keys |-> {}, were_empty |-> {}]

\* CANAnalyzerGUI.__init__, lines 50-82 and 359: the fields other than the
\* decoder's tables and the listbox
GuiConstructed ==
    /\ reader = "none"
    /\ is_connected = FALSE
    /\ is_capturing = FALSE
    /\ stop_processing = FALSE
    /\ message_queue = <<>>
    /\ decoded_data = [k \in {} |-> <<>>]
    /\ max_points_var = <<"1", "0", "0", "0">>
    /\ clock = 0
    /\ started = 0
    /\ read_threads = <<>>
    /\ processing_threads = <<>>
    /\ removed = {}
    /\ appended = [k \in {} |-> <<>>]
    /\ append_caps = [k \in {} |-> <<>>]
    /\ last_process = NoProcess
    /\ current_error = "none"
    /\ plot_signals = [k \in {} |-> <<>>]
    /\ plot_can_id_var = <<>>
    /\ plot_signal_var = ""
    /\ plot_signal_values = <<>>
    /\ plot_message = "none"
    /\ color_index = 0
    /\ last_plot_add = NoPlotAdd

\* CANReader.__init__, lines 36-42, and no call made yet
ReaderConstructed ==
    /\ bus = "none"
    /\ messages = <<>>
    /\ running = FALSE
    /\ read_call = NoReadCall
    /\ last_filter = NoFilter

\* A CANDecoder used on its own: the analyzer's fields stay as constructed
InitDecoder ==
    /\ signal_definitions = [i \in {} |-> <<>>]
    /\ custom_decoders = [i \in {} |-> ""]
    /\ first_registered = [i \in DecoderIds |-> "nothing"]
    /\ last_decode = NoDecode
    /\ decoder_listbox_items = <<>>
    /\ GuiConstructed
    /\ ReaderConstructed

\* CANDecoder.add_signal_definition
AddSignalTo(defs, can_id, signal) ==
    IF can_id \in DOMAIN defs
    THEN [defs EXCEPT ![can_id] = Append(@, signal)]
    ELSE defs @@ (can_id :> <<signal>>)

add_signal_definition(can_id, signal) ==
    /\ SignalCount < MaxSignals
    /\ signal_definitions' = AddSignalTo(signal_definitions, can_id, signal)
    /\ first_registered' =
           IF first_registered[can_id] = "nothing"
           THEN [first_registered EXCEPT ![can_id] = "signal"]
           ELSE first_registered
    /\ last_decode' = NoDecode
    /\ UNCHANGED <<cliVars, custom_decoders, guiVars>>

\* CANDecoder.add_custom_decoder
add_custom_decoder(can_id, kind) ==
    /\ custom_decoders' = DictSet(custom_decoders, can_id, kind)
    /\ first_registered' =
           IF first_registered[can_id] = "nothing"
           THEN [first_registered EXCEPT ![can_id] = "custom"]
           ELSE first_registered
    /\ last_decode' = NoDecode
    /\ UNCHANGED <<cliVars, signal_definitions, guiVars>>

\* A caller's decoder.decode_message(can_id, data)
DecodeCall(can_id, data) ==
    /\ \E r \in {decode_message(can_id, data)} :
           last_decode' =
               [called |-> TRUE, can_id |-> can_id, data |-> data,
                raised |-> r.raised,
                result |-> IF r.raised THEN EmptyDict ELSE r.value]
    /\ UNCHANGED <<cliVars, signal_definitions, custom_decoders, first_registered, guiVars>>

NextDecoder ==
    \/ \E can_id \in DecoderIds, signal \in SignalPool :
           add_signal_definition(can_id, signal)
    \/ \E can_id \in DecoderIds, kind \in CustomKinds :
           add_custom_decoder(can_id, kind)
    \/ \E can_id \in DecoderIds, data \in Payloads : DecodeCall(can_id, data)

SpecDecoder == InitDecoder /\ [][NextDecoder]_vars

(***************************************************************************)
(* Claims about decode_message                                             *)
(***************************************************************************)
\* The last byte index the field of a signal needs
FieldEndByte(signal) == (signal.start_bit + signal.length - 1) \div 8

TooShort(data, signal) == FieldEndByte(signal) >= Len(data)

\* the last call was answered from the signal definitions of its identifier
DecodedBySignals ==
    /\ last_decode.called
    /\ last_decode.can_id \notin DOMAIN custom_decoders
    /\ last_decode.can_id \in DOMAIN signal_definitions

LastSignals == signal_definitions[last_decode.can_id]

LastNames == {LastSignals[k].name : k \in 1..Len(LastSignals)}

ExtractionFails(data, signal) ==
    TooShort(data, signal) \/ extract_signal(data, signal).raised

C3_CustomDecoderOnly ==
    (last_decode.called /\ last_decode.can_id \in DOMAIN custom_decoders) =>
        LET kind == custom_decoders[last_decode.can_id]
            own  == CallCustom(kind, last_decode.data)
        IN  /\ last_decode.raised = own.raised
            /\ ~own.raised => last_decode.result = own.value
            /\ (kind = "shadow") => last_decode.result = ("a" :> Val(7000))
            /\ (kind = "first_byte" /\ ~last_decode.raised)
                   => DOMAIN last_decode.result = {"custom_value"}

\* C3 witness: both identifiers carry a custom decoder and signal
\* definitions, registered in opposite orders, and the identifier whose
\* signal "a" was registered first has just been decoded by its custom
\* decoder
C3_Witness ==
    /\ last_decode.called
    /\ DOMAIN custom_decoders = DecoderIds
    /\ DOMAIN signal_definitions = DecoderIds
    /\ first_registered[last_decode.can_id] = "signal"
    /\ \E other \in DecoderIds : first_registered[other] = "custom"
    /\ signal_definitions[last_decode.can_id][1].name = "a"
    /\ custom_decoders[last_decode.can_id] = "shadow"
    /\ last_decode.data = <<43, 1, 255, 128>>
    /\ last_decode.result = ("a" :> Val(7000))

(***************************************************************************)
(* The decoded-data store: CANAnalyzerGUI._process_message                 *)
(***************************************************************************)
Digits == {"0", "1", "2", "3", "4", "5", "6", "7", "8", "9"}

DigitValue(c) ==
    CASE c = "0" -> 0 [] c = "1" -> 1 [] c = "2" -> 2 [] c = "3" -> 3
      [] c = "4" -> 4 [] c = "5" -> 5 [] c = "6" -> 6 [] c = "7" -> 7
      [] c = "8" -> 8 [] OTHER -> 9

RECURSIVE ParseDigits(_, _, _)
ParseDigits(text, k, acc) ==
    IF k > Len(text) THEN Return(acc)
    ELSE IF text[k] \notin Digits THEN Raise
    ELSE ParseDigits(text, k + 1, acc * 10 + DigitValue(text[k]))

\* int(text) of a decimal text, a sequence of characters: ValueError unless
\* it is an optional sign followed by digits
PyInt(text) ==
    IF Len(text) = 0 THEN Raise
    ELSE IF text[1] \in {"-", "+"}
         THEN IF Len(text) = 1 THEN Raise
              ELSE LET r == ParseDigits(text, 2, 0)
                   IN  IF r.raised THEN Raise
                       ELSE Return(IF text[1] = "-" THEN 0 - r.value ELSE r.value)
    ELSE ParseDigits(text, 1, 0)

\* What the user may type into the "Max Data Points" entry
MaxPointsTexts ==
    { <<"1", "0", "0", "0">>, <<"0">>, <<"1">>, <<"3">>, <<"a", "b", "c">> }

Series(dd, key) == IF key \in DOMAIN dd THEN dd[key] ELSE <<>>

\* Mutant: the oldest sample is dropped as soon as the capacity is reached
EvictAtCapacity(series, max_points) ==
    IF Len(series) >= max_points THEN Tail(series) ELSE series

\* Lines 1288-1289: if len(series) > max_points: series.popleft()
Evict(series, max_points) ==
    IF Len(series) > max_points THEN Tail(series) ELSE series

\* Lines 1281-1289 for one decoded value: the append, then int() of the
\* entry's text, then the eviction.  The outcome carries the store as the
\* statement leaves it, also when int() raises.
StoreSample(dd, key, sample, text) ==
    LET grown == Append(Series(dd, key), sample)
        n     == PyInt(text)
    IN  IF n.raised
        THEN [raised |-> TRUE, value |-> DictSet(dd, key, grown)]
        ELSE [raised |-> FALSE, value |-> DictSet(dd, key, Evict(grown, n.value))]

\* The names of a definition list from the k-th on, each once, in the order
\* of their first definition: the key order of the dict decode_message builds
RECURSIVE NamesInOrder(_, _, _)
NamesInOrder(signals, k, seen) ==
    IF k > Len(signals) THEN <<>>
    ELSE IF signals[k].name \in seen THEN NamesInOrder(signals, k + 1, seen)
    ELSE <<signals[k].name>> \o
         NamesInOrder(signals, k + 1, seen \cup {signals[k].name})

RECURSIVE SetToSeq(_)
SetToSeq(S) ==
    IF S = {} THEN <<>>
    ELSE LET x == CHOOSE y \in S : TRUE IN <<x>> \o SetToSeq(S \ {x})

\* decoded.items() in iteration order, as <<name, value>> pairs
DecodedItems(can_id, decoded) ==
    LET names == IF UsesCustomDecoder(custom_decoders, can_id)
                 THEN SetToSeq(DOMAIN decoded)
                 ELSE IF can_id \in DOMAIN signal_definitions
                      THEN NamesInOrder(signal_definitions[can_id], 1, {})
                      ELSE <<>>
    IN  [i \in 1..Len(names) |-> <<names[i], decoded[names[i]]>>]

\* Mutant: the sample carries no arrival time
SampleWithoutTime(timestamp, v) == [timestamp |-> 0, value |-> v]

\* Lines 1281-1284: the dict appended to the series
Sample(timestamp, v) == [timestamp |-> timestamp, value |-> v]

\* The loop of lines 1279-1289 over the remaining items
RECURSIVE StoreItems(_, _, _, _, _)
StoreItems(dd, can_id, items, timestamp, text) ==
    IF items = <<>> THEN [raised |-> FALSE, value |-> dd]
    ELSE LET signal_name == Head(items)[1]
             value       == Head(items)[2]
         IN  IF value.is_none
             THEN StoreItems(dd, can_id, Tail(items), timestamp, text)
             ELSE LET r == StoreSample(dd, <<can_id, signal_name>>,
                                       Sample(timestamp, value.v), text)
                  IN  IF r.raised THEN r
                      ELSE StoreItems(r.value, can_id, Tail(items), timestamp, text)

\* _process_message(msg) on store dd, lines 1271-1289
\* The keys _process_message appends a sample to: every non-None item, or
\* only the first of them when int() raises
RECURSIVE NonNoneKeys(_, _)
NonNoneKeys(can_id, items) ==
    IF items = <<>> THEN <<>>
    ELSE IF Head(items)[2].is_none THEN NonNoneKeys(can_id, Tail(items))
    ELSE <<<<can_id, Head(items)[1]>>>> \o NonNoneKeys(can_id, Tail(items))

AppendedKeys(can_id, items, text) ==
    LET keys == NonNoneKeys(can_id, items)
    IN  IF PyInt(text).raised /\ keys # <<>> THEN {keys[1]}
        ELSE {keys[i] : i \in 1..Len(keys)}

\* The value decoded for signal_name among items
ItemValue(items, signal_name) ==
    LET i == CHOOSE j \in 1..Len(items) : items[j][1] = signal_name
    IN  items[i][2].v

(***************************************************************************)
(* The analyzer as constructed: _load_default_decoders                     *)
(***************************************************************************)
\* DEFAULT_DECODERS of can_ids.py as _load_default_decoders registers them:
\* uint16_le at byte_index * 8, scale 0.001
DefaultSignals ==
    (CAN_ID_AIN1_4 :> <<Signal("analog_voltage_in1", 0, 16, 1, 0, FALSE, TRUE)>>)
    @@ (CAN_ID_AIN21_temp :>
           <<Signal("internal_voltage", 16, 16, 1, 0, FALSE, TRUE),
             Signal("temperature", 32, 16, 1, 0, FALSE, TRUE)>>)

DefaultListbox ==
    << <<CAN_ID_AIN1_4, "analog_voltage_in1">>,
       <<CAN_ID_AIN21_temp, "internal_voltage">>,
       <<CAN_ID_AIN21_temp, "temperature">> >>

InitGui ==
    /\ signal_definitions = DefaultSignals
    /\ custom_decoders = [i \in {} |-> ""]
    /\ first_registered = [i \in DecoderIds |-> "signal"]
    /\ last_decode = NoDecode
    /\ decoder_listbox_items = DefaultListbox
    /\ GuiConstructed
    /\ ReaderConstructed

\* Frames of the two identifiers with default decoders, as the comment of
\* can_ids.py lines 38-39 gives them
Frame601 == [arbitration_id |-> CAN_ID_AIN1_4, data |-> <<3, 215>>]

Frame606 == [arbitration_id |-> CAN_ID_AIN21_temp, data |-> <<0, 0, 5, 236, 6, 185>>]

Stamped(frame, timestamp) ==
    [timestamp |-> timestamp, arbitration_id |-> frame.arbitration_id,
     data |-> frame.data]

(***************************************************************************)
(* The store specification: _process_message called for one frame after    *)
(* another, the capacity entry edited and the data cleared in between      *)
(***************************************************************************)
\* A frame of the second analog input block, for which nothing is registered
Frame602 == [arbitration_id |-> CAN_ID_AIN5_8, data |-> <<1, 2>>]

StoreFrames == {Frame601, Frame606}

ProcessMessage(frame) ==
    /\ clock < MaxFrames
    /\ \E msg \in {Stamped(frame, clock)} :
       \E d \in {decode_message(msg.arbitration_id, msg.data)} :
       \E items \in {IF d.raised THEN <<>>
                     ELSE DecodedItems(msg.arbitration_id, d.value)} :
       \E r \in {IF d.raised THEN [raised |-> TRUE, value |-> decoded_data]
                 ELSE StoreItems(decoded_data, msg.arbitration_id, items,
                                 msg.timestamp, max_points_var)} :
       \E keys \in {AppendedKeys(msg.arbitration_id, items, max_points_var)} :
           /\ decoded_data' = r.value
           /\ appended' =
                  [k \in (DOMAIN appended) \cup keys |->
                      IF k \in keys
                      THEN Append(Series(appended, k),
                                  Sample(msg.timestamp, ItemValue(items, k[2])))
                      ELSE appended[k]]
           /\ append_caps' =
                  [k \in (DOMAIN append_caps) \cup keys |->
                      IF k \notin keys THEN append_caps[k]
                      ELSE IF k \notin DOMAIN append_caps \/ append_caps[k] = max_points_var
                           THEN max_points_var
                           ELSE <<"mixed">>]
           /\ last_process' =
                  [called |-> TRUE, can_id |-> msg.arbitration_id,
                   timestamp |-> msg.timestamp, text |-> max_points_var,
                   raised |-> r.raised, keys |-> keys,
                   were_empty |-> {k \in keys : Series(decoded_data, k) = <<>>}]
    /\ clock' = clock + 1
    /\ UNCHANGED <<cliVars, plotVars, reportVars, decoderVars, sessionVars, tableVars, message_queue,
                   read_threads, processing_threads, max_points_var>>

\* The user edits the "Max Data Points" entry
SetMaxPoints(text) ==
    /\ text # max_points_var
    /\ max_points_var' = text
    /\ UNCHANGED <<cliVars, plotVars, reportVars, decoderVars, sessionVars, threadVars, tableVars, decoded_data,
                   appended, append_caps, last_process>>

\* _clear_data, line 1495
ClearData ==
    /\ decoded_data # [k \in {} |-> <<>>]
    /\ decoded_data' = [k \in {} |-> <<>>]
    /\ appended' = [k \in {} |-> <<>>]
    /\ append_caps' = [k \in {} |-> <<>>]
    /\ last_process' = NoProcess
    /\ UNCHANGED <<cliVars, plotVars, reportVars, decoderVars, sessionVars, threadVars, tableVars, max_points_var>>

NextStore ==
    \/ \E frame \in StoreFrames : ProcessMessage(frame)
    \/ \E text \in MaxPointsTexts : SetMaxPoints(text)
    \/ ClearData

SpecStore == InitGui /\ [][NextStore]_vars

(***************************************************************************)
(* The capture pipeline: connection, capture sessions and their threads    *)
(***************************************************************************)
NoMsg == [timestamp |-> 0, arbitration_id |-> 0, data |-> <<>>]

\* A _read_messages_thread about to evaluate its loop condition
NewReadThread == [pc |-> "loop", msg |-> NoMsg]

\* A _process_messages_thread about to evaluate its loop condition
NewProcessingThread == [pc |-> "loop", msg |-> NoMsg, items |-> <<>>]

\* Frames the bus delivers: the analog input frame of the default decoders
BusFrames == {Frame601}

\* _connect: CANReader.connect() succeeds (the banner is hidden) or fails
\* (the banner shows the connection error)
Connect(ok) ==
    /\ ~is_connected
    /\ reader' = IF ok THEN "open" ELSE "failed"
    /\ is_connected' = ok
    /\ current_error' = IF ok THEN "none" ELSE "connect"
    /\ UNCHANGED <<cliVars, plotVars, is_capturing, stop_processing, started, decoderVars, threadVars,
                   storeVars, tableVars>>

\* Mutant: _disconnect without lines 1185-1186, a capture goes on
DisconnectLeavesCapture == FALSE

\* Lines 1185-1186: _disconnect stops a capture through _toggle_capture
DisconnectStopsCapture == TRUE

\* _disconnect, reached from _toggle_connection when connected
Disconnect ==
    /\ is_connected
    /\ is_capturing' = IF DisconnectStopsCapture THEN FALSE ELSE is_capturing
    /\ stop_processing' =
           IF DisconnectStopsCapture THEN (is_capturing \/ stop_processing)
           ELSE stop_processing
    /\ reader' = "none"
    /\ is_connected' = FALSE
    /\ UNCHANGED <<cliVars, plotVars, reportVars, started, decoderVars, threadVars, storeVars, tableVars>>

\* Mutant: _start_capture without the check of lines 1206-1210
StartUnchecked == TRUE

\* Line 1206: may _start_capture go on
StartAllowed == is_connected

\* _start_capture when not connected (lines 1206-1210): the error is shown
\* and the call returns
StartCaptureRefused ==
    /\ ~is_capturing
    /\ ~StartAllowed
    /\ current_error' = "not_connected"
    /\ UNCHANGED <<cliVars, plotVars, decoderVars, sessionVars, threadVars, storeVars, tableVars>>

\* _start_capture, reached from _toggle_capture when not capturing: two new
\* threads are started
StartCapture ==
    /\ ~is_capturing
    /\ StartAllowed
    /\ started < MaxStarts
    /\ is_capturing' = TRUE
    /\ stop_processing' = FALSE
    /\ started' = started + 1
    /\ read_threads' = Append(read_threads, NewReadThread)
    /\ processing_threads' = Append(processing_threads, NewProcessingThread)
    /\ UNCHANGED <<cliVars, plotVars, reportVars, reader, is_connected, message_queue, clock, decoderVars,
                   storeVars, tableVars>>

\* _hide_error_banner: the close button, or the timer set by
\* _show_error_banner
HideErrorBanner ==
    /\ current_error # "none"
    /\ current_error' = "none"
    /\ UNCHANGED <<cliVars, plotVars, decoderVars, sessionVars, threadVars, storeVars, tableVars>>

\* _stop_capture, reached from _toggle_capture when capturing: the flags are
\* set and the call returns
StopCapture ==
    /\ is_capturing
    /\ is_capturing' = FALSE
    /\ stop_processing' = TRUE
    /\ UNCHANGED <<cliVars, plotVars, reportVars, reader, is_connected, started, decoderVars, threadVars,
                   storeVars, tableVars>>

\* Mutant: no except clause around recv, an error ends the thread
RecvErrorEndsThread == "done"

\* Lines 1249-1253: where the except clause leaves the reader
AfterRecvError == "loop"

\* Mutant: recv() without a timeout returns only with a frame
BusRecvBlocking == {"frame"}

\* The ways self.reader.bus.recv(timeout=0.1) ends
BusRecvOutcomes == {"frame", "timeout", "error"}

\* Line 1238: the loop condition of _read_messages_thread
ReaderLoop(i) ==
    /\ read_threads[i].pc = "loop"
    /\ read_threads' =
           [read_threads EXCEPT ![i].pc =
               IF is_capturing /\ ~stop_processing THEN "test" ELSE "done"]
    /\ UNCHANGED <<cliVars, plotVars, reportVars, sessionVars, decoderVars, storeVars, tableVars, message_queue,
                   clock, processing_threads>>

\* Line 1240: if self.reader and self.reader.bus; without a bus the thread
\* sleeps and evaluates the loop condition again
ReaderTest(i) ==
    /\ read_threads[i].pc = "test"
    /\ read_threads' =
           [read_threads EXCEPT ![i].pc = IF reader = "open" THEN "recv" ELSE "loop"]
    /\ UNCHANGED <<cliVars, plotVars, reportVars, sessionVars, decoderVars, storeVars, tableVars, message_queue,
                   clock, processing_threads>>

\* Lines 1241-1248 up to the put, and the except clause: self.reader.bus is
\* read again for the call; a frame is stamped with datetime.now(); a
\* timeout or an error leads back to the loop condition, and so does the
\* AttributeError raised when the reader or its bus is None by now
ReaderRecv(i) ==
    /\ read_threads[i].pc = "recv"
    /\ \/ /\ reader = "open"
          /\ \E outcome \in BusRecvOutcomes, frame \in BusFrames :
                 IF outcome = "frame"
                 THEN /\ clock < MaxClock
                      /\ clock' = clock + 1
                      /\ read_threads' =
                             [read_threads EXCEPT ![i] =
                                 [pc |-> "put", msg |-> Stamped(frame, clock)]]
                      /\ current_error' = current_error
                 ELSE /\ clock' = clock
                      /\ read_threads' =
                             [read_threads EXCEPT ![i].pc =
                                 IF outcome = "error" THEN AfterRecvError ELSE "loop"]
                      /\ current_error' =
                             IF outcome = "error" /\ is_capturing THEN "reading"
                             ELSE current_error
       \/ /\ reader # "open"
          /\ clock' = clock
          /\ read_threads' = [read_threads EXCEPT ![i].pc = AfterRecvError]
          /\ current_error' = IF is_capturing THEN "reading" ELSE current_error
    /\ UNCHANGED <<cliVars, plotVars, sessionVars, decoderVars, storeVars, tableVars, message_queue,
                   processing_threads>>

\* Line 1243: self.message_queue.put(...)
ReaderPut(i) ==
    /\ read_threads[i].pc = "put"
    /\ message_queue' = Append(message_queue, read_threads[i].msg)
    /\ read_threads' = [read_threads EXCEPT ![i] = NewReadThread]
    /\ UNCHANGED <<cliVars, plotVars, reportVars, sessionVars, decoderVars, storeVars, tableVars, clock,
                   processing_threads>>

ReaderStep(i) == ReaderLoop(i) \/ ReaderTest(i) \/ ReaderRecv(i) \/ ReaderPut(i)

\* Mutant: no except clause around _process_message, an error ends the thread
ProcessErrorEndsThread == "done"

\* Lines 1264-1267: where the except clause leaves the worker
AfterProcessError == "loop"

\* Line 1257: the loop condition of _process_messages_thread
WorkerLoop(i) ==
    /\ processing_threads[i].pc = "loop"
    /\ processing_threads' =
           [processing_threads EXCEPT ![i].pc =
               IF ~stop_processing THEN "empty" ELSE "done"]
    /\ UNCHANGED <<cliVars, plotVars, reportVars, sessionVars, decoderVars, storeVars, tableVars, message_queue,
                   clock, read_threads>>

\* Line 1259: if not self.message_queue.empty()
WorkerEmpty(i) ==
    /\ processing_threads[i].pc = "empty"
    /\ processing_threads' =
           [processing_threads EXCEPT ![i].pc =
               IF message_queue # <<>> THEN "get" ELSE "loop"]
    /\ UNCHANGED <<cliVars, plotVars, reportVars, sessionVars, decoderVars, storeVars, tableVars, message_queue,
                   clock, read_threads>>

\* Line 1260: get(timeout=0.1) returns the oldest frame, or raises
\* queue.Empty after the timeout (lines 1262-1263)
WorkerGet(i) ==
    /\ processing_threads[i].pc = "get"
    /\ IF message_queue # <<>>
       THEN /\ message_queue' = Tail(message_queue)
            /\ processing_threads' =
                   [processing_threads EXCEPT ![i] =
                       [pc |-> "decode", msg |-> Head(message_queue), items |-> <<>>]]
       ELSE /\ message_queue' = message_queue
            /\ processing_threads' = [processing_threads EXCEPT ![i].pc = "loop"]
    /\ UNCHANGED <<cliVars, plotVars, reportVars, sessionVars, decoderVars, storeVars, tableVars, clock,
                   read_threads>>

\* Lines 1271-1276: decoded = self.decoder.decode_message(can_id, data); an
\* exception ends the iteration (lines 1264-1267)
WorkerDecode(i) ==
    /\ processing_threads[i].pc = "decode"
    /\ \E msg \in {processing_threads[i].msg} :
       \E d \in {decode_message(msg.arbitration_id, msg.data)} :
       \E items \in {IF d.raised THEN <<>>
                     ELSE DecodedItems(msg.arbitration_id, d.value)} :
           /\ processing_threads' =
                  [processing_threads EXCEPT ![i] =
                      IF d.raised THEN [NewProcessingThread EXCEPT !.pc = AfterProcessError]
                      ELSE IF items = <<>> THEN NewProcessingThread
                      ELSE [pc |-> "store", msg |-> msg, items |-> items]]
           /\ current_error' = IF d.raised THEN "processing" ELSE current_error
    /\ UNCHANGED <<cliVars, plotVars, sessionVars, decoderVars, storeVars, tableVars, message_queue,
                   clock, read_threads>>

\* Lines 1279-1289 for the next decoded item; an exception of int() ends
\* the iteration (lines 1264-1267)
WorkerStore(i) ==
    /\ processing_threads[i].pc = "store"
    /\ \E t \in {processing_threads[i]} :
       \E item \in {Head(t.items)} :
       \E r \in {IF item[2].is_none
                 THEN [raised |-> FALSE, value |-> decoded_data]
                 ELSE StoreSample(decoded_data, <<t.msg.arbitration_id, item[1]>>,
                                  Sample(t.msg.timestamp, item[2].v),
                                  max_points_var)} :
           /\ decoded_data' = r.value
           /\ processing_threads' =
                  [processing_threads EXCEPT ![i] =
                      IF r.raised THEN [NewProcessingThread EXCEPT !.pc = AfterProcessError]
                      ELSE IF Tail(t.items) = <<>> THEN NewProcessingThread
                      ELSE [t EXCEPT !.items = Tail(t.items)]]
           /\ current_error' = IF r.raised THEN "processing" ELSE current_error
    /\ UNCHANGED <<cliVars, plotVars, sessionVars, decoderVars, tableVars, message_queue, clock,
                   read_threads, max_points_var, appended, append_caps,
                   last_process>>

WorkerStep(i) ==
    WorkerLoop(i) \/ WorkerEmpty(i) \/ WorkerGet(i) \/ WorkerDecode(i) \/ WorkerStore(i)

(***************************************************************************)
(* The texts of the plot panel.  A text is a sequence of characters; a     *)
(* signal name is a string, as it is only chosen from a list and compared  *)
(***************************************************************************)
UpperHexDigits ==
    <<"0", "1", "2", "3", "4", "5", "6", "7", "8", "9", "A", "B", "C", "D", "E", "F">>

\* The value of a hexadecimal digit of either case, -1 for another character
HexValue(c) ==
    LET LowerHexDigits ==
            SubSeq(UpperHexDigits, 1, 10) \o <<"a", "b", "c", "d", "e", "f">>
    IN  IF \E k \in 1..16 : UpperHexDigits[k] = c
        THEN (CHOOSE k \in 1..16 : UpperHexDigits[k] = c) - 1
        ELSE IF \E k \in 1..16 : LowerHexDigits[k] = c
             THEN (CHOOSE k \in 1..16 : LowerHexDigits[k] = c) - 1
             ELSE -1

\* str.strip() for blanks
RECURSIVE Strip(_)
Strip(text) ==
    IF text = <<>> THEN text
    ELSE IF Head(text) = " " THEN Strip(Tail(text))
    ELSE IF text[Len(text)] = " " THEN Strip(SubSeq(text, 1, Len(text) - 1))
    ELSE text

\* int(text, 0) for the texts a user types: blanks around the number are
\* ignored, 0x or 0X starts a hexadecimal number, a decimal number has no
\* leading zero; anything else is a ValueError
PyIntBase0(text) ==
    LET t == Strip(text)
        \* the digits of t from the k-th character on, in the base, after acc
        RECURSIVE ParseBase(_, _, _)
        ParseBase(k, base, acc) ==
            IF k > Len(t) THEN Return(acc)
            ELSE IF HexValue(t[k]) < 0 \/ HexValue(t[k]) >= base THEN Raise
            ELSE ParseBase(k + 1, base, acc * base + HexValue(t[k]))
    IN  IF Len(t) > 2 /\ t[1] = "0" /\ t[2] \in {"x", "X"}
        THEN ParseBase(3, 16, 0)
        ELSE IF t = <<>> \/ (Len(t) > 1 /\ t[1] = "0" /\ \E k \in 1..Len(t) : t[k] # "0")
             THEN Raise
             ELSE ParseBase(1, 10, 0)

\* text.split(c)[0]
BeforeChar(text, c) ==
    IF \E k \in 1..Len(text) : text[k] = c
    THEN SubSeq(text, 1, (CHOOSE k \in 1..Len(text) :
                             text[k] = c /\ \A j \in 1..(k - 1) : text[j] # c) - 1)
    ELSE text

\* can_id_str.split('(')[1].split(')')[0] when the text has both brackets
\* (lines 904-905, 944-945), the text itself otherwise
BracketPart(text) ==
    LET HasChar(c) == \E k \in 1..Len(text) : text[k] = c
        \* the text after the first "("
        AfterBracket ==
            SubSeq(text, Len(BeforeChar(text, "(")) + 2, Len(text))
    IN  IF HasChar("(") /\ HasChar(")")
        THEN BeforeChar(BeforeChar(AfterBracket, "("), ")")
        ELSE text

\* get_can_id_hex, and the f"0x{can_id:X}" of lines 827 and 913
CanIdHex(can_id) ==
    LET RECURSIVE UpperHex(_)
        UpperHex(n) ==
            IF n < 16 THEN <<UpperHexDigits[n + 1]>>
            ELSE UpperHex(n \div 16) \o <<UpperHexDigits[(n % 16) + 1]>>
    IN  <<"0", "x">> \o UpperHex(can_id)

\* The signal names of an identifier in a table of definitions
SignalNames(defs, can_id) ==
    IF can_id \in DOMAIN defs
    THEN [i \in 1..Len(defs[can_id]) |-> defs[can_id][i].name]
    ELSE <<>>

\* _update_plot_combos, lines 873-886, with the decoder's table as it is
\* when the handler calls it: the list and the text of the signal combobox
\* afterwards.  The bare except leaves both as they are.
UpdatePlotCombos(defs) ==
    IF plot_can_id_var = <<>>
    THEN [values |-> plot_signal_values, signal |-> plot_signal_var]
    ELSE LET can_id == PyIntBase0(BracketPart(plot_can_id_var))
         IN  IF can_id.raised
             THEN [values |-> plot_signal_values, signal |-> plot_signal_var]
             ELSE [values |-> SignalNames(defs, can_id.value),
                   signal |-> IF SignalNames(defs, can_id.value) # <<>>
                                 /\ plot_signal_var = ""
                              THEN SignalNames(defs, can_id.value)[1]
                              ELSE plot_signal_var]

\* Mutant: the first definition of the identifier is dropped, whatever its
\* name
SignalsWithoutFirst(signals, signal_name) == Tail(signals)

\* The definitions of a list that are not named signal_name (lines 814-815)
RECURSIVE SignalsToKeep(_, _)
SignalsToKeep(signals, signal_name) ==
    IF signals = <<>> THEN <<>>
    ELSE IF Head(signals).name # signal_name
         THEN <<Head(signals)>> \o SignalsToKeep(Tail(signals), signal_name)
         ELSE SignalsToKeep(Tail(signals), signal_name)

\* list.pop(index) on a 1-based sequence
PopAt(seq, index) == SubSeq(seq, 1, index - 1) \o SubSeq(seq, index + 1, Len(seq))

\* _remove_signal_decoder with the index-th listbox entry selected
RemoveSignalDecoder(index) ==
    /\ index \in 1..Len(decoder_listbox_items)
    /\ LET can_id      == decoder_listbox_items[index][1]
           signal_name == decoder_listbox_items[index][2]
           keep        == SignalsToKeep(signal_definitions[can_id], signal_name)
       IN  /\ signal_definitions' =
                  IF can_id \in DOMAIN signal_definitions
                  THEN IF keep # <<>>
                       THEN [signal_definitions EXCEPT ![can_id] = keep]
                       ELSE DictDel(signal_definitions, can_id)
                  ELSE signal_definitions
           /\ decoder_listbox_items' = PopAt(decoder_listbox_items, index)
           /\ decoded_data' = DictDel(decoded_data, <<can_id, signal_name>>)
           /\ removed' = removed \cup {<<can_id, signal_name>>}
           /\ plot_signals' = DictDel(plot_signals, <<CanIdHex(can_id), signal_name>>)
           /\ plot_signal_var' = UpdatePlotCombos(signal_definitions').signal
           /\ plot_signal_values' = UpdatePlotCombos(signal_definitions').values
    /\ UNCHANGED <<cliVars, plot_can_id_var, color_index, plot_message, last_plot_add, reportVars, sessionVars, threadVars, custom_decoders, first_registered,
                   last_decode, max_points_var, appended, append_caps, last_process>>

NextPipe ==
    \/ \E ok \in BOOLEAN : Connect(ok)
    \/ Disconnect
    \/ StartCapture
    \/ StartCaptureRefused
    \/ StopCapture
    \/ HideErrorBanner
    \/ \E i \in 1..started : ReaderStep(i)
    \/ \E i \in 1..started : WorkerStep(i)
    \/ \E index \in 1..Len(decoder_listbox_items) : RemoveSignalDecoder(index)

SpecPipe == InitGui /\ [][NextPipe]_vars

\* A thread that can take a step: threading.Thread(..., daemon=True).start()
\* hands the loops to the interpreter's scheduler
ThreadStep == \E i \in 1..started : ReaderStep(i) \/ WorkerStep(i)

\* The connection and capture buttons and the threads, without the decoder
\* panel and the error banner's close button
NextSessions ==
    \/ \E ok \in BOOLEAN : Connect(ok)
    \/ Disconnect
    \/ StartCapture
    \/ StopCapture
    \/ ThreadStep

\* The scheduler keeps running some thread as long as one can take a step
FairPipe == InitGui /\ [][NextSessions]_vars /\ WF_vars(ThreadStep)

\* What the user types into the "Max Data Points" entry during a capture: a
\* number, and a text int() rejects
FaultTexts == { <<"1", "0", "0", "0">>, <<"a", "b", "c">> }

\* A capture whose capacity entry is edited while frames are processed
NextFaults ==
    \/ Connect(TRUE)
    \/ StartCapture
    \/ StopCapture
    \/ \E text \in FaultTexts : SetMaxPoints(text)
    \/ ThreadStep

SpecFaults == InitGui /\ [][NextFaults]_vars

\* Frames of an identifier with a default decoder and of one without,
\* processed one after another while the capacity entry is edited
MixedFrames == {Frame601, Frame602}

NextMixed ==
    \/ \E frame \in MixedFrames : ProcessMessage(frame)
    \/ \E text \in FaultTexts : SetMaxPoints(text)

SpecMixed == InitGui /\ [][NextMixed]_vars

(***************************************************************************)
(* The decoder table: the form, the preset loader and the listbox of the   *)
(* "Signal Decoders" panel                                                 *)
(***************************************************************************)
\* The data types _add_signal_decoder and _load_predefined_decoders know
\* (lines 749-773 and 683-702)
DataTypes == {"uint8", "uint16_le", "uint16_be", "int16_le", "int16_be"}

TypeLength(data_type) == IF data_type = "uint8" THEN 8 ELSE 16

TypeSigned(data_type) == data_type \in {"int16_le", "int16_be"}

TypeLittleEndian(data_type) == data_type \in {"uint8", "uint16_le", "int16_le"}

\* The SignalDefinition built from a byte index and a data type (lines
\* 750-778): start_bit = byte_index * 8
FormSignal(name, byte_index, data_type, scale, offset) ==
    Signal(name, byte_index * 8, TypeLength(data_type), scale, offset,
           TypeSigned(data_type), TypeLittleEndian(data_type))

Config(name, byte_index, data_type, scale, offset) ==
    [name |-> name, byte_index |-> byte_index, data_type |-> data_type,
     scale |-> scale, offset |-> offset]

\* EXAMPLE_DECODERS of can_ids.py for the two identifiers with default
\* decoders
EXAMPLE_DECODERS ==
    (CAN_ID_AIN1_4 :>
        << Config("analog_voltage_in1", 0, "uint16_le", 1, 0),
           Config("analog_voltage_in1_raw", 0, "uint16_le", 1000, 0) >>)
    @@ (CAN_ID_AIN21_temp :>
        << Config("internal_voltage", 2, "uint16_le", 1, 0),
           Config("temperature", 4, "uint16_le", 1, 0),
           Config("internal_voltage_raw", 2, "uint16_le", 1000, 0),
           Config("temperature_raw", 4, "uint16_le", 1000, 0) >>)

\* What the user may put into the form and submit, as <<identifier, signal
\* name, byte index, data type>>: the preset of lines 633-641, a signal of
\* the other identifier with a negative byte index (int() accepts a sign),
\* and a data type that is none of the known ones
FormInputs ==
    { <<CAN_ID_AIN1_4, "analog_voltage_in1", 0, "uint16_le">>,
      <<CAN_ID_AIN21_temp, "voltage", -1, "int16_be">>,
      <<CAN_ID_AIN1_4, "voltage", 0, "float32">> }

\* _add_signal_decoder: the definition is registered and listed, or the
\* ValueError of line 775 is shown in the banner
AddSignalDecoder(can_id, signal_name, byte_index, data_type) ==
    /\ Len(decoder_listbox_items) < MaxTable
    /\ IF data_type \in DataTypes
       THEN /\ signal_definitions' =
                   AddSignalTo(signal_definitions, can_id,
                               FormSignal(signal_name, byte_index, data_type, 1, 0))
            /\ decoder_listbox_items' =
                   Append(decoder_listbox_items, <<can_id, signal_name>>)
            /\ current_error' = current_error
            /\ plot_signal_var' = UpdatePlotCombos(signal_definitions').signal
            /\ plot_signal_values' = UpdatePlotCombos(signal_definitions').values
       ELSE /\ current_error' = "decoder"
            /\ UNCHANGED <<signal_definitions, decoder_listbox_items, plot_signal_var,
                           plot_signal_values>>
    /\ UNCHANGED <<cliVars, plot_signals, plot_can_id_var, color_index, plot_message, last_plot_add, custom_decoders, first_registered, last_decode, sessionVars,
                   threadVars, storeVars, removed>>

\* The loop of lines 681-722 from the k-th configuration on
RECURSIVE LoadConfigs(_, _, _, _)
LoadConfigs(defs, can_id, configs, k) ==
    IF k > Len(configs) THEN defs
    ELSE LoadConfigs(
             AddSignalTo(defs, can_id,
                         FormSignal(configs[k].name, configs[k].byte_index,
                                    configs[k].data_type, configs[k].scale,
                                    configs[k].offset)),
             can_id, configs, k + 1)

\* _load_predefined_decoders for an identifier that has example decoders
LoadPredefinedDecoders(can_id) ==
    /\ can_id \in DOMAIN EXAMPLE_DECODERS
    /\ Len(decoder_listbox_items) + Len(EXAMPLE_DECODERS[can_id]) <= MaxTable
    /\ signal_definitions' =
           LoadConfigs(signal_definitions, can_id, EXAMPLE_DECODERS[can_id], 1)
    /\ decoder_listbox_items' =
           decoder_listbox_items \o
           [k \in 1..Len(EXAMPLE_DECODERS[can_id]) |->
               <<can_id, EXAMPLE_DECODERS[can_id][k].name>>]
    /\ plot_signal_var' = UpdatePlotCombos(signal_definitions').signal
    /\ plot_signal_values' = UpdatePlotCombos(signal_definitions').values
    /\ UNCHANGED <<cliVars, plot_signals, plot_can_id_var, color_index, plot_message, last_plot_add, custom_decoders, first_registered, last_decode, sessionVars,
                   threadVars, storeVars, removed, reportVars>>

NextTable ==
    \/ \E form \in FormInputs :
           AddSignalDecoder(form[1], form[2], form[3], form[4])
    \/ \E can_id \in DecoderIds : LoadPredefinedDecoders(can_id)
    \/ \E index \in 1..Len(decoder_listbox_items) : RemoveSignalDecoder(index)
    \/ HideErrorBanner

SpecTable == InitGui /\ [][NextTable]_vars

(***************************************************************************)
(* Claims about the store                                                  *)
(***************************************************************************)
Min(a, b) == IF a <= b THEN a ELSE b

\* the last n elements of seq
LastN(seq, n) == SubSeq(seq, Len(seq) - n + 1, Len(seq))

\* C4: a series all of whose appends were made under one capacity N >= 1
\* holds exactly the last min(k, N) of the k samples appended to it since it
\* was created, oldest first.
C4_LastSamplesKept ==
    \A key \in DOMAIN decoded_data :
        LET n == PyInt(append_caps[key])
            k == Len(appended[key])
        IN  (~n.raised /\ n.value >= 1) =>
                decoded_data[key] = LastN(appended[key], Min(k, n.value))

\* C4 witness: capacity 3 and five appends to one series leave the samples
\* 3, 4 and 5
C4_Witness ==
    \E key \in DOMAIN decoded_data :
        /\ append_caps[key] = <<"3">>
        /\ Len(appended[key]) = 5
        /\ decoded_data[key] = SubSeq(appended[key], 3, 5)
        /\ decoded_data[key][1].timestamp < decoded_data[key][3].timestamp

\* C5 as claimed: an append made under capacity N leaves the series it
\* appends to with at most N samples, whatever its length was before.
C5_AppendEvictsDownToCapacity ==
    (last_process.called /\ ~PyInt(last_process.text).raised) =>
        \A key \in last_process.keys :
            Len(decoded_data[key]) <= PyInt(last_process.text).value

\* C6 as claimed: under capacity 0 an append does not raise, the sample it
\* appended is not in the series afterwards, and a series that was empty
\* stays empty.
C6_ZeroCapacityRetainsNothing ==
    (last_process.called /\ last_process.text = <<"0">>) =>
        /\ ~last_process.raised
        /\ \A key \in last_process.keys :
               /\ \A i \in 1..Len(decoded_data[key]) :
                      decoded_data[key][i].timestamp # last_process.timestamp
               /\ key \in last_process.were_empty => decoded_data[key] = <<>>

(***************************************************************************)
(* Claims about the pipeline                                               *)
(***************************************************************************)
TaskExited(t) == t.pc = "done"

AllTasksExited ==
    \A i \in 1..started :
        TaskExited(read_threads[i]) /\ TaskExited(processing_threads[i])

\* C7 as claimed: in every reachable state the timestamps of every series
\* are non-decreasing from one stored sample to the next.
C7_TimestampsNonDecreasing ==
    \A key \in DOMAIN decoded_data :
        \A j \in 1..(Len(decoded_data[key]) - 1) :
            decoded_data[key][j].timestamp <= decoded_data[key][j + 1].timestamp

\* C8 as claimed: once a stop has returned (the session is not capturing)
\* every reader and worker task has exited, and so the tasks of an earlier
\* session have exited whenever a later session exists.
C8_StopJoinsTasks ==
    /\ ~is_capturing => AllTasksExited
    /\ \A i \in 1..started :
           i < started =>
               TaskExited(read_threads[i]) /\ TaskExited(processing_threads[i])

\* C9: if from some point on the capture stays stopped (a stop request not
\* followed by a start), then from some point on every reader and worker
\* task has left its loop, under fair scheduling of the threads.
C9_TasksExitAfterStop ==
    <>[](stop_processing /\ ~is_capturing) => <>[]AllTasksExited

\* C9 witness: the capture is stopped while a reader waits in recv and a
\* worker waits in get on an empty queue
C9_Witness ==
    /\ stop_processing
    /\ ~is_capturing
    /\ message_queue = <<>>
    /\ \E i \in 1..started :
           read_threads[i].pc = "recv" /\ processing_threads[i].pc = "get"

\* C10 as claimed: the series of a removed signal decoder is absent or
\* empty in every state after the removal.
C10_RemovedSeriesStaysEmpty ==
    \A key \in removed : Series(decoded_data, key) = <<>>

(***************************************************************************)
(* Claims about the decoder table                                          *)
(***************************************************************************)
\* names without every occurrence of name, the order kept
Without(names, name) == SelectSeq(names, LAMBDA x : x # name)

\* the step removed the index-th entry of the listbox
RemovedEntry(index) ==
    /\ Len(decoder_listbox_items') = Len(decoder_listbox_items) - 1
    /\ decoder_listbox_items' = PopAt(decoder_listbox_items, index)

\* C11: a removal of (identifier, name) leaves get_available_signals of the
\* identifier as it was without the name, the other names in their order,
\* deletes the identifier's entry when no name is left and leaves the other
\* identifiers alone; no identifier ever maps to an empty list, and an
\* identifier without an entry lists as empty.
C11_RemovalKeepsOthers ==
    /\ [](\A can_id \in DOMAIN signal_definitions :
             signal_definitions[can_id] # <<>>)
    /\ [](\A can_id \in DecoderIds \cup {CAN_ID_AIN5_8} :
             can_id \notin DOMAIN signal_definitions
                 => get_available_signals(can_id) = <<>>)
    /\ [][\A index \in 1..Len(decoder_listbox_items) :
             RemovedEntry(index) =>
                 \A entry \in {decoder_listbox_items[index]} :
                 \A before \in {get_available_signals(entry[1])} :
                     /\ get_available_signals(entry[1])' = Without(before, entry[2])
                     /\ (Without(before, entry[2]) = <<>>)
                            <=> (entry[1] \notin DOMAIN signal_definitions')
                     /\ \A other \in DecoderIds \ {entry[1]} :
                            get_available_signals(other)'
                                = get_available_signals(other)]_vars

\* C11 witness: the only signal of 0x259 and the first signal of 0x25E have
\* been removed; 0x259 has no entry and 0x25E lists its other signal
C11_Witness ==
    /\ removed = {<<CAN_ID_AIN1_4, "analog_voltage_in1">>,
                  <<CAN_ID_AIN21_temp, "internal_voltage">>}
    /\ CAN_ID_AIN1_4 \notin DOMAIN signal_definitions
    /\ get_available_signals(CAN_ID_AIN1_4) = <<>>
    /\ get_available_signals(CAN_ID_AIN21_temp) = <<"temperature">>

\* C12 as claimed: in every reachable state the names of one identifier's
\* definitions are pairwise distinct.
C12_NamesDistinct ==
    \A can_id \in DOMAIN signal_definitions :
        \A i, j \in 1..Len(signal_definitions[can_id]) :
            i # j => signal_definitions[can_id][i].name
                         # signal_definitions[can_id][j].name

\* a bit length of 1..64 and a start bit that is not negative
ValidParameters(signal) ==
    /\ signal.length >= 1
    /\ signal.length <= 64
    /\ signal.start_bit >= 0

\* C13 as claimed: whenever a frame has been decoded, every definition in
\* the table has valid parameters (a definition with a bit length of 0 or
\* above 64, or a negative start bit, was rejected when it was registered).
C13_InvalidSpecsRejected ==
    last_decode.called =>
        \A can_id \in DOMAIN signal_definitions :
            \A k \in 1..Len(signal_definitions[can_id]) :
                ValidParameters(signal_definitions[can_id][k])

(***************************************************************************)
(* The codec specification: a CANDecoder with one definition, and frames   *)
(* decoded with it                                                         *)
(***************************************************************************)
\* Byte indexes of a full frame
PayloadIndexes == 0..7

\* Definitions of every length 1..16 at every start bit at which the field
\* lies within a full frame, signed and unsigned, of both byte orders, with
\* scale 1.0 and offset 0.0
CodecSignals ==
    { Signal("raw", start_bit, length, 1000, 0, is_signed, is_little_endian) :
        start_bit \in 0..(8 * Cardinality(PayloadIndexes) - 1), length \in 1..16,
        is_signed \in BOOLEAN, is_little_endian \in BOOLEAN }

SignalFits(signal) ==
    signal.start_bit + signal.length <= 8 * Cardinality(PayloadIndexes)

\* Frames a caller decodes: the examples of the field patterns 0x012B,
\* 0xFFFF and 0x8000, and a full frame of mixed bits
CodecPayloads ==
    { <<43, 1>>, <<255, 255>>, <<0, 128>>,
      <<1, 35, 69, 103, 137, 171, 205, 239>> }

\* The raw integers written into a field: the ends of the range of the
\* length, the values next to its sign bit and 299 cut to the length
RawValues(signal) ==
    LET top == Pow2(signal.length - 1)
    IN  IF signal.is_signed
        THEN {0 - top, -1, 0, top - 1, 299 % top}
        ELSE {0, top - 1, top, 2 * top - 1, 299 % (2 * top)}

\* The bit pattern of a raw integer in a field of the length (two's
\* complement for a negative one)
BitPattern(signal, raw) == IF raw < 0 THEN raw + Pow2(signal.length) ELSE raw

\* A frame whose field holds the bit pattern, least significant bit at the
\* start bit and the following bits at the following global bit indexes
\* (the layout of struct '<H' for a field of 16 bits at a byte boundary);
\* every other bit of the frame is the fill bit
EncodeLittleEndian(signal, pattern, fill) ==
    [k \in 1..Cardinality(PayloadIndexes) |->
        LET Bit(b) ==
                LET global_bit == (k - 1) * 8 + b
                IN  IF InField(signal, global_bit)
                    THEN (pattern \div Pow2(global_bit - signal.start_bit)) % 2
                    ELSE fill
        IN  Bit(0) + 2 * Bit(1) + 4 * Bit(2) + 8 * Bit(3) + 16 * Bit(4)
            + 32 * Bit(5) + 64 * Bit(6) + 128 * Bit(7)]

\* The big-endian fields with a byte layout: 8 or 16 bits at a byte boundary
ByteAligned(signal) == signal.start_bit % 8 = 0 /\ signal.length \in {8, 16}

\* A frame whose field holds the bit pattern as struct '>H' lays it out (the
\* high byte first), or as the one byte of a field of 8 bits; every other
\* byte is 8 fill bits
EncodeBigEndian(signal, pattern, fill) ==
    [k \in 1..Cardinality(PayloadIndexes) |->
        LET first == signal.start_bit \div 8 + 1
        IN  IF signal.length = 8
            THEN IF k = first THEN pattern ELSE 255 * fill
            ELSE IF k = first THEN pattern \div 256
                 ELSE IF k = first + 1 THEN pattern % 256
                 ELSE 255 * fill]

Encodable(signal) ==
    SignalFits(signal) /\ (signal.is_little_endian \/ ByteAligned(signal))

Encode(signal, raw, fill) ==
    IF signal.is_little_endian
    THEN EncodeLittleEndian(signal, BitPattern(signal, raw), fill)
    ELSE EncodeBigEndian(signal, BitPattern(signal, raw), fill)

\* decode_voltage_16bit, lines 124-132: struct.unpack of '<H' or '>H' on the
\* two bytes at byte_index, times scale plus offset, or 0.0 for a short frame
decode_voltage_16bit(data, byte_index, scale, offset, little_endian) ==
    IF Len(data) >= byte_index + 2
    THEN LET value == IF little_endian
                      THEN data[byte_index + 1] + 256 * data[byte_index + 2]
                      ELSE 256 * data[byte_index + 1] + data[byte_index + 2]
         IN  value * scale + offset
    ELSE 0

\* The definition the decoder was given
CodecSignal == signal_definitions[CAN_ID_AIN1_4][1]

InitCodec ==
    /\ \E signal \in CodecSignals :
           /\ SignalFits(signal)
           /\ signal_definitions = (CAN_ID_AIN1_4 :> <<signal>>)
    /\ custom_decoders = [i \in {} |-> ""]
    /\ first_registered = [i \in DecoderIds |->
                              IF i = CAN_ID_AIN1_4 THEN "signal" ELSE "nothing"]
    /\ last_decode = NoDecode
    /\ decoder_listbox_items = <<>>
    /\ GuiConstructed
    /\ ReaderConstructed

\* A caller decodes one frame with the decoder (decode_message changes
\* nothing, so one call per decoder shows what every call does)
CodecDecode(data) ==
    /\ ~last_decode.called
    /\ DecodeCall(CAN_ID_AIN1_4, data)

\* A caller writes a raw integer into a frame and decodes the frame
RoundTrip(raw, fill) ==
    /\ Encodable(CodecSignal)
    /\ CodecDecode(Encode(CodecSignal, raw, fill))

NextCodec ==
    \/ \E data \in CodecPayloads : CodecDecode(data)
    \/ \E raw \in RawValues(CodecSignal), fill \in {0, 1} : RoundTrip(raw, fill)

SpecCodec == InitCodec /\ [][NextCodec]_vars

(***************************************************************************)
(* Claims about _extract_signal                                            *)
(***************************************************************************)
\* the codec's definition decoded a frame its field fits in
DecodedField ==
    /\ DecodedBySignals
    /\ last_decode.can_id = CAN_ID_AIN1_4
    /\ ~TooShort(last_decode.data, CodecSignal)

\* the unsigned raw value of the field: what the definition gives with
\* is_signed off (scale 1.0, offset 0.0)
UnsignedRaw(data, signal) ==
    extract_signal(data, [signal EXCEPT !.is_signed = FALSE]).value \div 1000

\* C14: a signed field of L bits decodes to its unsigned raw value u when
\* bit L-1 of u is clear and to u - 2^L when it is set, a value of
\* -2^(L-1) .. 2^(L-1)-1; an unsigned field decodes to u, a value of
\* 0 .. 2^L-1.  A signed little-endian field of 16 bits holding FF FF
\* decodes to -1, one holding 00 80 (0x8000) to -32768.
C14_TwosComplement ==
    DecodedField =>
        \E signal \in {CodecSignal} :
        \E u \in {UnsignedRaw(last_decode.data, signal)} :
        \E got \in {last_decode.result[signal.name]} :
        \E half \in {Pow2(signal.length - 1)} :
            /\ ~got.is_none
            /\ u >= 0 /\ u <= 2 * half - 1
            /\ ~signal.is_signed => got.v = 1000 * u
            /\ signal.is_signed =>
                 /\ got.v = 1000 * (IF (u \div half) % 2 = 1 THEN u - 2 * half ELSE u)
                 /\ got.v >= 1000 * (0 - half)
                 /\ got.v <= 1000 * (half - 1)
            /\ ( /\ signal.is_signed /\ signal.is_little_endian
                 /\ signal.start_bit = 0 /\ signal.length = 16 ) =>
                 /\ last_decode.data = <<255, 255>> => got.v = -1000
                 /\ last_decode.data = <<0, 128>> => got.v = -32768000

\* C14 witness: the signed little-endian field of 16 bits decoded 00 80
C14_Witness ==
    /\ DecodedField
    /\ CodecSignal = Signal("raw", 0, 16, 1000, 0, TRUE, TRUE)
    /\ last_decode.data = <<0, 128>>
    /\ last_decode.result["raw"] = Val(-32768000)

\* C15 as claimed: a raw integer written into a frame at the field of a
\* definition, in the definition's byte order, decodes to that raw integer.
C15_RoundTrip ==
    (DecodedField /\ Encodable(CodecSignal)) =>
        \A raw \in RawValues(CodecSignal), fill \in {0, 1} :
            last_decode.data = Encode(CodecSignal, raw, fill)
                => last_decode.result["raw"] = Val(1000 * raw)

\* floor(V / 2^s) mod 2^n for n <= 16, V the payload read as a little-endian
\* integer: the bits s .. s+n-1 of V lie in the three bytes from byte s/8 on
FieldOfLittleEndianInteger(data, s, n) ==
    LET first   == s \div 8
        Byte(k) == IF first + k < Len(data) THEN data[first + k + 1] ELSE 0
        span    == Byte(0) + 256 * Byte(1) + 65536 * Byte(2)
    IN  (span \div Pow2(s % 8)) % Pow2(n)

\* C16: an unsigned little-endian field of n bits at start bit s that fits
\* in the payload decodes to floor(V / 2^s) mod 2^n; payload 2B 01 with
\* start bit 0 and length 16 gives 299.
C16_LittleEndianValue ==
    (DecodedField /\ CodecSignal.is_little_endian /\ ~CodecSignal.is_signed) =>
        /\ last_decode.result["raw"] =
               Val(1000 * FieldOfLittleEndianInteger(last_decode.data,
                              CodecSignal.start_bit, CodecSignal.length))
        /\ ( /\ last_decode.data = <<43, 1>>
             /\ CodecSignal.start_bit = 0 /\ CodecSignal.length = 16 )
               => last_decode.result["raw"] = Val(299000)

\* C16 witness: a field of 11 bits at start bit 5 decoded from the frame
\* 01 23 45 67 89 AB CD EF: bits 5..15 of 0x2301 are 0x118
C16_Witness ==
    /\ DecodedField
    /\ CodecSignal = Signal("raw", 5, 11, 1000, 0, FALSE, TRUE)
    /\ last_decode.data = <<1, 35, 69, 103, 137, 171, 205, 239>>
    /\ last_decode.result["raw"] = Val(280000)

(***************************************************************************)
(* Claims about errors in a capture session                                *)
(***************************************************************************)
\* C17: a bus receive that raises does not end the reader: from the receive
\* a reader goes on to the put or back to its loop condition, a reader about
\* to put does enqueue its frame, and a reader ends only at the loop
\* condition with the stop flag set.
C17_ReaderSurvivesRecvError ==
    [][\A i \in 1..started :
          /\ read_threads[i].pc = "recv"
                => read_threads'[i].pc \in {"recv", "put", "loop"}
          /\ (read_threads[i].pc = "put" /\ read_threads'[i] # read_threads[i])
                => /\ message_queue' = Append(message_queue, read_threads[i].msg)
                   /\ read_threads'[i].pc = "loop"
          /\ (read_threads[i].pc # "done" /\ read_threads'[i].pc = "done")
                => /\ read_threads[i].pc = "loop"
                   /\ stop_processing]_vars

\* C17 witness: the only reader reported a receive error while capturing and
\* has since received the first frame of the session, which it is about to
\* enqueue
C17_Witness ==
    /\ started = 1
    /\ is_capturing
    /\ current_error = "reading"
    /\ clock = 1
    /\ read_threads[1].pc = "put"
    /\ read_threads[1].msg = Stamped(Frame601, 0)

\* C19: while the analyzer is not connected a start request is always
\* answered with the "not connected" error, the request that shows the error
\* leaves the session, the threads, the queue, the stop flag and the store
\* as they are, and no step taken while not connected starts a capture or a
\* thread.
C19_StartRefusedWhenNotConnected ==
    /\ []((~is_connected /\ ~is_capturing) => ENABLED StartCaptureRefused)
    /\ [][(current_error' = "not_connected" /\ current_error # "not_connected")
            => /\ ~is_connected /\ ~is_capturing
               /\ UNCHANGED <<sessionVars, threadVars, storeVars>>]_vars
    /\ [][~is_connected
            => /\ ~is_capturing'
               /\ started' = started
               /\ Len(read_threads') = Len(read_threads)
               /\ Len(processing_threads') = Len(processing_threads)]_vars

\* C19 witness: the error of a refused start request is shown, nothing was
\* ever started
C19_Witness ==
    /\ current_error = "not_connected"
    /\ ~is_connected /\ ~is_capturing /\ ~stop_processing
    /\ started = 0
    /\ read_threads = <<>> /\ processing_threads = <<>>
    /\ message_queue = <<>>

\* C18: an exception while a dequeued frame is processed does not end the
\* worker: from the decode and the store a worker goes on or back to its
\* loop condition, a store that raises leaves the worker at the loop
\* condition with the queue as it was and shows the error, the worker takes
\* the oldest queued frame next, and it ends only at the loop condition with
\* the stop flag set.
C18_WorkerSurvivesProcessError ==
    [][\A i \in 1..started :
          \A t \in {processing_threads[i]} :
          /\ t.pc \in {"decode", "store"}
                => processing_threads'[i].pc \in {"decode", "store", "loop"}
          /\ ( /\ t.pc = "store"
               /\ processing_threads'[i] # t
               /\ ~Head(t.items)[2].is_none
               /\ PyInt(max_points_var).raised )
                => /\ processing_threads'[i] = NewProcessingThread
                   /\ message_queue' = message_queue
                   /\ current_error' = "processing"
          /\ (t.pc = "get" /\ processing_threads'[i] # t /\ message_queue # <<>>)
                => /\ processing_threads'[i].pc = "decode"
                   /\ processing_threads'[i].msg = Head(message_queue)
          /\ (t.pc # "done" /\ processing_threads'[i].pc = "done")
                => /\ t.pc = "loop"
                   /\ stop_processing]_vars

\* C18 witness: the only worker failed while it stored the first frame (the
\* entry's text was no number), is still running, and has dequeued and
\* decoded the second frame, which it is about to store
C18_Witness ==
    /\ started = 1
    /\ is_capturing
    /\ current_error = "processing"
    /\ PyInt(max_points_var) = Return(1000)
    /\ processing_threads[1].pc = "store"
    /\ processing_threads[1].msg = Stamped(Frame601, 1)
    /\ processing_threads[1].items # <<>>
    /\ \A key \in DOMAIN decoded_data :
          /\ Len(decoded_data[key]) = 1
          /\ decoded_data[key][1].timestamp = 0

(***************************************************************************)
(* Claims about identifiers nothing is registered for                      *)
(***************************************************************************)
Unregistered(can_id) ==
    /\ can_id \notin DOMAIN signal_definitions
    /\ can_id \notin DOMAIN custom_decoders

\* C20: a frame of an identifier with neither signal definitions nor a custom
\* decoder decodes to the empty mapping without an exception, and
\* _process_message of such a frame raises nothing, appends to no series and
\* leaves the store as it was.
C20_UnregisteredIdStoresNothing ==
    /\ [](\A frame \in MixedFrames :
             Unregistered(frame.arbitration_id)
                => decode_message(frame.arbitration_id, frame.data) = Return(EmptyDict))
    /\ []((last_process.called /\ Unregistered(last_process.can_id))
             => /\ ~last_process.raised
                /\ last_process.keys = {})
    /\ [][( /\ last_process' # last_process
            /\ last_process'.called
            /\ Unregistered(last_process'.can_id) )
             => /\ decoded_data' = decoded_data
                /\ appended' = appended]_vars

\* C20 witness: a frame of 0x25A was processed while the entry's text was no
\* number and the store held samples of other identifiers
C20_Witness ==
    /\ last_process.called
    /\ last_process.can_id = CAN_ID_AIN5_8
    /\ Unregistered(CAN_ID_AIN5_8)
    /\ ~last_process.raised
    /\ last_process.keys = {}
    /\ PyInt(last_process.text).raised
    /\ DOMAIN decoded_data # {}

(***************************************************************************)
(* The command-line reader: CANReader.read_messages and filter_messages    *)
(* of can_reader.py, called one after another by a script                  *)
(***************************************************************************)
\* Frames on the bus: the fields filter_messages looks at
CliFrames ==
    { [arbitration_id |-> CAN_ID_AIN1_4, data |-> <<3, 215>>, dlc |-> 2],
      [arbitration_id |-> CAN_ID_AIN21_temp, data |-> <<>>, dlc |-> 6] }

\* The count argument of read_messages: None or an integer
CountInputs == {NoneVal, Val(0), Val(1), Val(2)}

\* Python's truth value of an Optional[int]: None and 0 are false
IntTruthy(x) == ~x.is_none /\ x.v # 0

\* Python's truth value of an Optional[List]: None and [] are false
ListTruthy(x) == ~x.is_none /\ x.v # <<>>

\* Lines 136-137 and the return: the call is over
ReadReturned(call) == [call EXCEPT !.pc = "returned"]

\* read_messages(duration, count) up to the loop, lines 92-104; connect()
\* of lines 44-75 gives a bus or fails.  A script reads first and filters
\* what it has read afterwards, as main() does (lines 568-577)
ReadMessages(duration_given, count) ==
    /\ read_call.pc \in {"idle", "returned"}
    /\ ~last_filter.called
    /\ \E ok \in BOOLEAN :
          IF bus = "none" /\ ~ok
          THEN /\ read_call' = NoReadCall
               /\ UNCHANGED <<bus, running>>
          ELSE /\ bus' = "open"
               /\ running' = TRUE
               /\ read_call' =
                      [NoReadCall EXCEPT !.pc = "loop",
                                         !.duration_given = duration_given,
                                         !.count = count,
                                         !.before = Len(messages)]
    /\ UNCHANGED <<messages, last_filter, decoderVars, guiVars>>

\* Lines 107-111: the loop condition and the two breaks; whether the duration
\* has passed is the wall clock's choice
ReadLoop ==
    /\ read_call.pc = "loop"
    /\ \E elapsed \in {read_call.duration_given, FALSE} :
          IF \/ ~running
             \/ elapsed
             \/ (IntTruthy(read_call.count)
                   /\ read_call.message_count >= read_call.count.v)
          THEN /\ read_call' = ReadReturned(read_call)
               /\ running' = FALSE
          ELSE /\ read_call' = [read_call EXCEPT !.pc = "recv"]
               /\ running' = running
    /\ UNCHANGED <<bus, messages, last_filter, decoderVars, guiVars>>

\* Lines 113-132: recv(timeout=0.1) gives a frame, which is appended, or
\* None, or raises CanError, which ends the loop
ReadRecv ==
    /\ read_call.pc = "recv"
    /\ \E outcome \in BusRecvOutcomes, frame \in CliFrames :
          CASE outcome = "frame" ->
                  /\ Len(messages) < MaxMessages
                  /\ messages' =
                         Append(messages,
                                [timestamp |-> Len(messages),
                                 arbitration_id |-> frame.arbitration_id,
                                 data |-> frame.data, dlc |-> frame.dlc])
                  /\ read_call' =
                         [read_call EXCEPT !.pc = "loop",
                                           !.message_count = @ + 1]
                  /\ running' = running
            [] outcome = "timeout" ->
                  /\ read_call' = [read_call EXCEPT !.pc = "loop", !.timed_out = TRUE]
                  /\ UNCHANGED <<messages, running>>
            [] OTHER ->
                  /\ read_call' = ReadReturned([read_call EXCEPT !.can_error = TRUE])
                  /\ running' = FALSE
                  /\ messages' = messages
    /\ UNCHANGED <<bus, last_filter, decoderVars, guiVars>>

\* Lines 134-137: Ctrl+C during the loop
KeyboardInterrupt ==
    /\ read_call.pc \in {"loop", "recv"}
    /\ read_call' = ReadReturned([read_call EXCEPT !.interrupted = TRUE])
    /\ running' = FALSE
    /\ UNCHANGED <<bus, messages, last_filter, decoderVars, guiVars>>

\* Calls of filter_messages: <<can_ids, min_dlc, max_dlc, data_filter>>, each
\* None or given; a data_filter is a function of the data
FilterInputs ==
    { <<NoneList, NoneVal, NoneVal, "None">>,
      <<Val(<<CAN_ID_AIN1_4>>), NoneVal, NoneVal, "None">>,
      <<Val(<<CAN_ID_AIN21_temp, CAN_ID_AIN5_8>>), NoneVal, NoneVal, "None">>,
      <<Val(<<>>), NoneVal, NoneVal, "None">>,
      <<NoneList, Val(6), NoneVal, "None">>,
      <<NoneList, Val(0), Val(2), "None">>,
      <<NoneList, NoneVal, Val(0), "None">>,
      <<NoneList, NoneVal, NoneVal, "has_data">>,
      <<NoneList, NoneVal, NoneVal, "never">>,
      <<Val(<<CAN_ID_AIN1_4, CAN_ID_AIN21_temp>>), Val(2), Val(6), "has_data">> }

DataFilter(data_filter, data) ==
    CASE data_filter = "has_data" -> Len(data) > 0
      [] OTHER -> FALSE

Range(seq) == {seq[i] : i \in 1..Len(seq)}

\* filter_messages, lines 158-172
filter_messages(msgs, can_ids, min_dlc, max_dlc, data_filter) ==
    LET by_id  == IF ListTruthy(can_ids)
                  THEN SelectSeq(msgs, LAMBDA m : m.arbitration_id \in Range(can_ids.v))
                  ELSE msgs
        by_min == IF ~min_dlc.is_none
                  THEN SelectSeq(by_id, LAMBDA m : m.dlc >= min_dlc.v)
                  ELSE by_id
        by_max == IF ~max_dlc.is_none
                  THEN SelectSeq(by_min, LAMBDA m : m.dlc <= max_dlc.v)
                  ELSE by_min
    IN  IF data_filter # "None"
        THEN SelectSeq(by_max, LAMBDA m : DataFilter(data_filter, m.data))
        ELSE by_max

\* A script calls filter_messages on what was collected
FilterMessages(can_ids, min_dlc, max_dlc, data_filter) ==
    /\ read_call.pc \in {"idle", "returned"}
    /\ last_filter' =
           [called |-> TRUE, can_ids |-> can_ids, min_dlc |-> min_dlc,
            max_dlc |-> max_dlc, data_filter |-> data_filter,
            result |-> filter_messages(messages, can_ids, min_dlc, max_dlc,
                                       data_filter),
            before |-> messages]
    /\ UNCHANGED <<bus, messages, running, read_call, decoderVars, guiVars>>

NextReader ==
    \/ \E duration_given \in BOOLEAN, count \in CountInputs :
           ReadMessages(duration_given, count)
    \/ ReadLoop
    \/ ReadRecv
    \/ KeyboardInterrupt
    \/ \E call \in FilterInputs :
           FilterMessages(call[1], call[2], call[3], call[4])

SpecReader == InitGui /\ [][NextReader]_vars

(***************************************************************************)
(* Claims about the command-line reader                                    *)
(***************************************************************************)
\* the read_messages call was given a count and no duration, and neither a
\* CanError nor Ctrl+C has ended it
CountedRead ==
    /\ read_call.pc # "idle"
    /\ ~read_call.count.is_none
    /\ ~read_call.duration_given
    /\ ~read_call.can_error
    /\ ~read_call.interrupted

\* C21 as claimed: read_messages(count=n) for an integer n >= 0 appends no
\* more than n messages, and has appended exactly n and left running False
\* when it returns.
C21_ReadsExactlyCount ==
    CountedRead =>
        /\ read_call.message_count <= read_call.count.v
        /\ Len(messages) = read_call.before + read_call.message_count
        /\ read_call.pc = "returned"
              => /\ read_call.message_count = read_call.count.v
                 /\ ~running

\* the message satisfies every criterion of the last call that was not None
Satisfies(m, f) ==
    /\ ~f.can_ids.is_none => m.arbitration_id \in Range(f.can_ids.v)
    /\ ~f.min_dlc.is_none => m.dlc >= f.min_dlc.v
    /\ ~f.max_dlc.is_none => m.dlc <= f.max_dlc.v
    /\ f.data_filter # "None" => DataFilter(f.data_filter, m.data)

\* C22 as claimed: filter_messages returns, in their order, exactly the
\* collected messages that satisfy every criterion that is not None.
C22_FilterKeepsExactlyMatches ==
    last_filter.called =>
        last_filter.result =
            SelectSeq(last_filter.before, LAMBDA m : Satisfies(m, last_filter))

(***************************************************************************)
(* Claims about the sessions of the capture pipeline                       *)
(***************************************************************************)
RunningReaders == {i \in 1..started : ~TaskExited(read_threads[i])}

RunningWorkers == {i \in 1..started : ~TaskExited(processing_threads[i])}

\* C23 as claimed: in every reachable state at most one reader task and at
\* most one worker task have not left their loops.
C23_OneReaderOneWorker ==
    /\ Cardinality(RunningReaders) <= 1
    /\ Cardinality(RunningWorkers) <= 1

(***************************************************************************)
(* Claims about the samples _process_message stores                        *)
(***************************************************************************)
\* _process_message has just run on a frame while the capacity entry held
\* an integer
ProcessedWithCapacity ==
    /\ last_process' # last_process
    /\ last_process'.called
    /\ ~PyInt(max_points_var).raised

C25_BigEndianMatchesHelper ==
    ( /\ DecodedField
      /\ ~CodecSignal.is_little_endian /\ ~CodecSignal.is_signed
      /\ CodecSignal.length = 16 /\ CodecSignal.start_bit % 8 = 0 ) =>
        \E i \in {CodecSignal.start_bit \div 8} :
        \E data \in {last_decode.data} :
           /\ last_decode.result["raw"] =
                  Val(decode_voltage_16bit(data, i, CodecSignal.scale,
                                           CodecSignal.offset, FALSE))
           /\ last_decode.result["raw"] =
                  Val(1000 * (256 * data[i + 1] + data[i + 2]))

\* C26: in every reachable state a capture is running only while the
\* analyzer is connected, and the analyzer is connected only while it has a
\* reader with a bus; a disconnect ends the capture, sets the stop flag of a
\* capture that was running, and clears the reader.
C26_CapturingImpliesConnected ==
    /\ [](is_capturing => is_connected)
    /\ [](is_connected => reader = "open")
    /\ [][(is_connected /\ ~is_connected')
            => /\ ~is_capturing'
               /\ is_capturing => stop_processing'
               /\ reader' = "none"]_vars

\* C26 witness: the analyzer was disconnected after a capture had started;
\* the capture is stopped, its threads have not yet seen the stop flag
C26_Witness ==
    /\ ~is_connected
    /\ reader = "none"
    /\ ~is_capturing
    /\ stop_processing
    /\ started = 1
    /\ read_threads[1].pc = "recv"
    /\ processing_threads[1].pc = "empty"

\* the first sequence is the beginning of the second
IsPrefix(old, new) ==
    /\ Len(old) <= Len(new)
    /\ SubSeq(new, 1, Len(old)) = old

\* C27 as claimed: while no capture is running the frames in the hand-off
\* queue stay queued: no step between two states without a capture takes a
\* frame out of the queue.
C27_IdleQueueStaysQueued ==
    [][(~is_capturing /\ ~is_capturing') => IsPrefix(message_queue, message_queue')]_vars

\* C29 as claimed: no reader thread is about to call recv (it has passed the
\* test of the reader and its bus) once the reader has been cleared.
C29_NoRecvAfterDisconnect ==
    \A i \in 1..started : read_threads[i].pc = "recv" => reader = "open"

(***************************************************************************)
(* Claims about the listbox of the decoder panel                           *)
(***************************************************************************)
Defined(can_id, name) ==
    /\ can_id \in DOMAIN signal_definitions
    /\ \E k \in 1..Len(signal_definitions[can_id]) :
           signal_definitions[can_id][k].name = name

Listed(can_id, name) ==
    \E k \in 1..Len(decoder_listbox_items) :
        decoder_listbox_items[k] = <<can_id, name>>

\* C28 as claimed: in every reachable state the listbox's list holds the
\* pair (identifier, name) exactly when the decoder has a definition of that
\* name for the identifier.
C28_ListboxMatchesTable ==
    /\ \A k \in 1..Len(decoder_listbox_items) :
           Defined(decoder_listbox_items[k][1], decoder_listbox_items[k][2])
    /\ \A can_id \in DOMAIN signal_definitions :
       \A k \in 1..Len(signal_definitions[can_id]) :
           Listed(can_id, signal_definitions[can_id][k].name)

(***************************************************************************)
(* The plot panel: the two comboboxes, Add to Plot, Remove, the list of    *)
(* plotted signals and Clear All                                           *)
(***************************************************************************)
\* CAN_ID_NAMES of can_ids.py, lines 26-34
CAN_ID_NAMES ==
          (600 :> <<"K", "e", "e", "p", " ", "A", "l", "i", "v", "e">>)
       @@ (601 :> <<"A", "n", "a", "l", "o", "g", " ", "I", "n", "p", "u", "t", "s", " ",
                 "1", "-", "4">>)
       @@ (602 :> <<"A", "n", "a", "l", "o", "g", " ", "I", "n", "p", "u", "t", "s", " ",
                 "5", "-", "8">>)
       @@ (603 :> <<"A", "n", "a", "l", "o", "g", " ", "I", "n", "p", "u", "t", "s", " ",
                 "9", "-", "1", "2">>)
       @@ (604 :> <<"A", "n", "a", "l", "o", "g", " ", "I", "n", "p", "u", "t", "s", " ",
                 "1", "3", "-", "1", "6">>)
       @@ (605 :> <<"A", "n", "a", "l", "o", "g", " ", "I", "n", "p", "u", "t", "s", " ",
                 "1", "7", "-", "2", "0">>)
       @@ (606 :> <<"A", "n", "a", "l", "o", "g", " ", "I", "n", "p", "u", "t", " ", "2",
                 "1", " ", "/", " ", "T", "e", "m", "p", "e", "r", "a", "t", "u", "r",
                 "e">>)

\* The texts a user picks from the list of the CAN ID combobox, as
\* _update_plot_combos fills it (lines 856-862): for an identifier
\* f"{CAN_ID_NAMES[cid]} ({get_can_id_hex(cid)})" and the hex text
SelectedTexts ==
    UNION { { CAN_ID_NAMES[can_id] \o <<" ", "(">> \o CanIdHex(can_id) \o <<")">>,
              CanIdHex(can_id) } : can_id \in {CAN_ID_AIN1_4, CAN_ID_AIN21_temp} }

\* The texts a user types into the CAN ID combobox, which is editable: the
\* identifier 0x25E in lower-case hex and in decimal, a text that is no
\* number, and the cleared field
TypedTexts ==
    { <<"0", "x", "2", "5", "e">>,
      <<"6", "0", "6">>,
      <<"a", "b", "c">>,
      <<>> }

\* _update_plot_selection, lines 1110-1148, on the text of the CAN ID
\* combobox, the list and the text of the signal combobox: the list and the
\* text of the signal combobox afterwards
UpdatePlotSelection(can_id_str, values, signal) ==
    IF can_id_str = <<>> THEN [values |-> values, signal |-> signal]
    ELSE LET can_id == PyIntBase0(BracketPart(can_id_str))
         IN  IF can_id.raised THEN [values |-> <<>>, signal |-> ""]
             ELSE LET signals ==
                          IF get_available_signals(can_id.value) = <<>>
                             /\ can_id.value \in DOMAIN DefaultSignals
                          THEN SignalNames(DefaultSignals, can_id.value)
                          ELSE get_available_signals(can_id.value)
                  IN  IF signals # <<>>
                      THEN [values |-> signals,
                            signal |-> IF signal = "" \/ signal \notin Range(signals)
                                       THEN signals[1] ELSE signal]
                      ELSE [values |-> signals, signal |-> ""]

\* The user picks a text from the list of the CAN ID combobox
\* (<<ComboboxSelected>>, line 554)
SelectPlotCanId(text) ==
    /\ plot_can_id_var' = text
    /\ \E r \in {UpdatePlotSelection(text, plot_signal_values, plot_signal_var)} :
          /\ plot_signal_values' = r.values
          /\ plot_signal_var' = r.signal
    /\ UNCHANGED <<cliVars, decoderVars, sessionVars, threadVars, storeVars,
                   tableVars, reportVars, plot_signals, color_index,
                   plot_message, last_plot_add>>

\* The user clears the CAN ID combobox and types a text (<KeyRelease>,
\* line 555): the handler runs on every beginning of the text, from the
\* k-th on
TypePlotCanId(text) ==
    LET RECURSIVE KeyReleases(_, _, _)
        KeyReleases(k, values, signal) ==
            IF k > Len(text) THEN [values |-> values, signal |-> signal]
            ELSE LET r == UpdatePlotSelection(SubSeq(text, 1, k), values, signal)
                 IN  KeyReleases(k + 1, r.values, r.signal)
    IN  /\ plot_can_id_var' = text
        /\ \E r \in {KeyReleases(1, plot_signal_values, plot_signal_var)} :
              /\ plot_signal_values' = r.values
              /\ plot_signal_var' = r.signal
        /\ UNCHANGED <<cliVars, decoderVars, sessionVars, threadVars, storeVars,
                       tableVars, reportVars, plot_signals, color_index,
                       plot_message, last_plot_add>>

\* The user picks a signal from the list of the signal combobox, which is
\* read-only (line 557)
SelectPlotSignal(signal_name) ==
    /\ signal_name \in Range(plot_signal_values)
    /\ plot_signal_var' = signal_name
    /\ UNCHANGED <<cliVars, decoderVars, sessionVars, threadVars, storeVars,
                   tableVars, reportVars, plot_signals, plot_can_id_var,
                   plot_signal_values, color_index, plot_message, last_plot_add>>

\* _add_to_plot, lines 887-932.  The names of the signal combobox have no
\* blanks, so strip leaves them as they are.  The identifier is read from
\* the stripped text or its part in brackets, stripped, with int(text, 0);
\* a colour is the index of one of the ten of line 72.
AddToPlot ==
    /\ color_index < MaxPlots
    /\ LET can_id_str  == Strip(plot_can_id_var)
           signal_name == plot_signal_var
           can_id      == PyIntBase0(Strip(BracketPart(Strip(plot_can_id_var))))
           key         == <<CanIdHex(can_id.value), signal_name>>
           call        == [NoPlotAdd EXCEPT !.called = TRUE,
                                            !.can_id_str = plot_can_id_var,
                                            !.signal_name = plot_signal_var]
       IN  IF can_id_str = <<>>
           THEN /\ plot_message' = "warning: CAN ID"
                /\ last_plot_add' = call
                /\ UNCHANGED <<plot_signals, color_index>>
           ELSE IF signal_name = ""
           THEN /\ plot_message' = "warning: signal"
                /\ last_plot_add' = call
                /\ UNCHANGED <<plot_signals, color_index>>
           ELSE IF can_id.raised
           THEN /\ plot_message' = "error: invalid CAN ID"
                /\ last_plot_add' = call
                /\ UNCHANGED <<plot_signals, color_index>>
           ELSE IF key \notin DOMAIN plot_signals
           THEN /\ plot_signals' =
                       DictSet(plot_signals, key,
                               [can_id |-> can_id.value, signal |-> signal_name,
                                color |-> color_index % 10])
                /\ color_index' = color_index + 1
                /\ plot_message' = "none"
                /\ last_plot_add' = [call EXCEPT !.key = key]
           ELSE /\ plot_message' = "info: already plotted"
                /\ last_plot_add' = [call EXCEPT !.key = key]
                /\ UNCHANGED <<plot_signals, color_index>>
    /\ UNCHANGED <<cliVars, decoderVars, sessionVars, threadVars, storeVars,
                   tableVars, reportVars, plot_can_id_var, plot_signal_var,
                   plot_signal_values>>

\* _remove_from_plot, lines 934-960.  The key is made of the part in
\* brackets or the text, as it stands, and the signal name (lines 943-946).
RemoveFromPlot ==
    /\ last_plot_add' = [last_plot_add EXCEPT !.remove_called = TRUE,
                                             !.remove_can_id_str = plot_can_id_var,
                                             !.remove_signal_name = plot_signal_var]
    /\ LET key == <<BracketPart(plot_can_id_var), plot_signal_var>>
       IN  IF plot_can_id_var = <<>> \/ plot_signal_var = ""
           THEN /\ plot_message' = "warning: CAN ID and signal"
                /\ UNCHANGED plot_signals
           ELSE IF key \in DOMAIN plot_signals
           THEN /\ plot_signals' = DictDel(plot_signals, key)
                /\ plot_message' = "none"
           ELSE /\ plot_message' = "info: not plotted"
                /\ UNCHANGED plot_signals
    /\ UNCHANGED <<cliVars, decoderVars, sessionVars, threadVars, storeVars,
                   tableVars, reportVars, plot_can_id_var, plot_signal_var,
                   plot_signal_values, color_index>>

\* _remove_selected_from_plot, lines 962-995, for the selected line of the
\* list of plotted signals, which has one line for each subscription:
\* f"{signal_name} ({can_id_name})" with or without the unit, where
\* can_id_name is get_can_id_name(can_id) (lines 1023-1031); the handler
\* cuts the identifier part out of the line (lines 974-978)
RemoveSelectedFromPlot(selected) ==
    /\ selected \in DOMAIN plot_signals
    /\ LET get_can_id_name(can_id) ==
               IF can_id \in DOMAIN CAN_ID_NAMES
               THEN CAN_ID_NAMES[can_id] ELSE CanIdHex(can_id)
           signal_name == plot_signals[selected].signal
           can_id_part ==
               BeforeChar(get_can_id_name(plot_signals[selected].can_id), ")")
           found == {key \in DOMAIN plot_signals :
                        /\ plot_signals[key].signal = signal_name
                        /\ CanIdHex(plot_signals[key].can_id) = can_id_part}
       IN  IF found # {}
           THEN /\ \E key \in found : plot_signals' = DictDel(plot_signals, key)
                /\ plot_message' = "info: removed"
           ELSE /\ plot_message' = "warning: not found"
                /\ UNCHANGED plot_signals
    /\ UNCHANGED <<cliVars, decoderVars, sessionVars, threadVars, storeVars,
                   tableVars, reportVars, plot_can_id_var, plot_signal_var,
                   plot_signal_values, color_index, last_plot_add>>

\* _clear_all_plots, lines 998-1006
ClearAllPlots ==
    /\ IF DOMAIN plot_signals # {}
       THEN /\ plot_signals' = [k \in {} |-> <<>>]
            /\ plot_message' = "info: all removed"
       ELSE /\ plot_message' = "info: nothing to remove"
            /\ UNCHANGED plot_signals
    /\ UNCHANGED <<cliVars, decoderVars, sessionVars, threadVars, storeVars,
                   tableVars, reportVars, plot_can_id_var, plot_signal_var,
                   plot_signal_values, color_index, last_plot_add>>

NextPlot ==
    \/ \E text \in SelectedTexts : SelectPlotCanId(text)
    \/ \E text \in TypedTexts : TypePlotCanId(text)
    \/ \E signal_name \in Range(plot_signal_values) : SelectPlotSignal(signal_name)
    \/ AddToPlot
    \/ RemoveFromPlot
    \/ \E selected \in DOMAIN plot_signals : RemoveSelectedFromPlot(selected)
    \/ ClearAllPlots

SpecPlot == InitGui /\ [][NextPlot]_vars

(***************************************************************************)
(* Claims about the plot subscriptions                                     *)
(***************************************************************************)
\* _add_to_plot ran on texts it accepted, and _remove_from_plot was then
\* called with the same two texts
AddedThenRemoved ==
    /\ last_plot_add.called
    /\ last_plot_add.key # <<>>
    /\ last_plot_add.remove_called
    /\ last_plot_add.remove_can_id_str = last_plot_add.can_id_str
    /\ last_plot_add.remove_signal_name = last_plot_add.signal_name

\* C30 as claimed: after a signal was added to the plot and remove-from-plot
\* was called with the same identifier text and signal name, plot_signals
\* has no entry for the key the add made.
C30_AddRemoveRoundTrip ==
    AddedThenRemoved => last_plot_add.key \notin DOMAIN plot_signals

====
